---- MODULE Spec2Model ----
(***************************************************************************)
(* skywatch-tail: the label firehose subscriber (FirehoseSubscriber), the  *)
(* label handler of index.ts, the labels table and the HydrationQueue,     *)
(* modelled as one state machine.  Asynchronous operations (fs.writeFile,  *)
(* the DuckDB insert, the hydration handlers, setTimeout) are split at     *)
(* their await points: the part of a handler that runs synchronously is    *)
(* one action, each completion is another.                                 *)
(***************************************************************************)
EXTENDS Naturals, Integers, Sequences, FiniteSets, Bags, TLC

VARIABLES
  \* ---- HydrationQueue (hydration/queue.ts) ----
  queue,            \* this.queue: sequence of tasks
  processing,       \* this.processing
  processingTask,   \* this.processingTask, NoTask for null
  queueTimers,      \* pending setTimeout(..., 100) callbacks of processNext
  running,          \* bag of tasks whose "task" handler started and has not finished
  executions,       \* bag of tasks emitted as "task" so far (history)
  accepted,         \* number of enqueue calls made so far (bounds the driver)
  order,            \* history: tickets in push order of the queued tasks, the next
                    \* ticket, the ticket emitted last, the next ticket at the last clear
  \* ---- FirehoseSubscriber (firehose/subscriber.ts) ----
  phase,            \* "down" | "loading" (start() awaiting loadCursor) | "up"
  ws,               \* this.ws: a socket id, or NoSocket for null
  sockets,          \* the WebSocket objects that exist: id -> [state, pos]
  connects,         \* number of WebSocket objects ever constructed
  reconnectAttempts,\* this.reconnectAttempts
  shouldReconnect,  \* this.shouldReconnect
  cursor,           \* this.cursor: CursorNull, NaN or Num(n)
  timers,           \* pending reconnect timers: sequence of their delays (ms)
  reconnectsSinceOpen, \* history: reconnects scheduled since the last "open"
  stopped,          \* history: stop() has been called
  connectsAtStop,   \* history: value of connects when stop() was called
  writes,           \* fs.writeFile calls in flight: sequence of [seq, stage]
  inserts,          \* label handlers awaiting labelsRepo.insert: bag of labels
  \* ---- persistent state (survives a kill) ----
  cursorFile,       \* cursor.txt: [exists, data], data a sequence of digits
  labelsTable,      \* the labels table: bag of rows
  \* ---- environment and history ----
  log,              \* the frames the labeler has sent so far; log[i] has seq SeqOf(i)
  allowedLabels,    \* LabelFilter.allowedLabels: a set of values, or NoFilter
  emitted,          \* history: emitted[i] = labels of frame i emitted as "label"
  cursorSaves,      \* history: frames i for which saveCursor was called
  delivered,        \* history: bag of triples whose insert statement ran without error
  budget,           \* what the environment may still do: [faults, stops, frames]
  \* ---- hydration services and BlobProcessor ----
  handlers,         \* hydratePost / hydrateProfile calls past their first await: bag
  hydrateBlobs,     \* config.blobs.hydrateBlobs, read from the environment at start
  postsTable,       \* the posts table: set of rows, one per uri
  profilesTable,    \* the profiles table: set of rows, one per did
  blobsTable,       \* the blobs table: set of rows, one per (post_uri, blob_cid)
  blobFiles,        \* the storage backend: the files stored, each [path, data]
  fetches,          \* history: bag of content identifiers fetched since the start
  lastBlobWrite,    \* history: the last blobsRepo.insert call, with the switch then
  lastOutcome,      \* history: summary of the hydration call that finished last
  checkedAbsent,    \* history: profile tasks stored after avatar or banner was absent
  \* ---- utilities (utils/rate-limit.ts, utils/retry.ts) and direct calls ----
  limiter,          \* a RateLimiter: [tokens, elapsed since lastRefill, callers],
                    \* and as history the acquire calls made and the one that
                    \* returned last
  call              \* the last direct call of a function: [fn, in, out]

queueVars == <<queue, processing, processingTask, queueTimers, running, executions,
               accepted, order>>
connVars == <<phase, ws, sockets, connects, reconnectAttempts, shouldReconnect, timers,
              reconnectsSinceOpen, stopped, connectsAtStop>>
ingestVars == <<cursor, writes, inserts, cursorFile, labelsTable, emitted, cursorSaves,
                delivered>>
envVars == <<log, allowedLabels, budget>>
hydVars == <<handlers, hydrateBlobs, postsTable, profilesTable, blobsTable, blobFiles,
             fetches, lastBlobWrite, lastOutcome, checkedAbsent>>
utilVars == <<limiter, call>>
vars == <<queueVars, connVars, ingestVars, envVars, hydVars, utilVars>>

\* ---------------------------------------------------------------- bounds
MaxEnqueues == 4
MaxSeq == 2
FirstSeq == 9
MaxCloses == 7
MaxFaults == 1
MaxMessages == 2
MaxHydrations == 1
\* The RateLimiter's config (maxTokens, refillRate, refillInterval in ticks of
\* the clock) and the number of acquire calls made.
MaxTokens == 2
RefillRate == 1
RefillInterval == 2
MaxAcquires == 3

\* ------------------------------------------------------------ small helpers
Min(a, b) == IF a <= b THEN a ELSE b

RECURSIVE Pow2(_)
Pow2(k) == IF k = 0 THEN 1 ELSE 2 * Pow2(k - 1)

RemoveAt(s, k) == SubSeq(s, 1, k - 1) \o SubSeq(s, k + 1, Len(s))

BagAdd(b, x) == b (+) SetToBag({x})
BagRemove(b, x) == b (-) SetToBag({x})

\* ------------------------------------------------------------------ URIs
\* A uri is kept as what the code reads of it: whether it starts with "at://"
\* and the "/"-separated segments of the rest.
AtUri(segs) == [at |-> TRUE, segs |-> segs]
BareUri(s) == [at |-> FALSE, segs |-> <<s>>]
NoUri == [at |-> FALSE, segs |-> <<>>]

PostUri == AtUri(<<"did:plc:user", "app.bsky.feed.post", "abc">>)
DidUri == BareUri("did:plc:xyz")

\* ------------------------------------------------------- HydrationQueue
Task(type, identifier) == [type |-> type, identifier |-> identifier]
NoTask == Task("null", NoUri)

HydrationTasks == {Task("post", PostUri), Task("profile", DidUri),
                   Task("profile", BareUri("did:plc:user"))}

InQueue(task) == \E k \in 1..Len(queue) :
  queue[k].type = task.type /\ queue[k].identifier = task.identifier

BeingProcessed(task) ==
  processingTask.type = task.type /\ processingTask.identifier = task.identifier

\* hydrationQueue.on("task", async ...): the handler starts synchronously inside
\* emit and suspends at its first await; emit returns without waiting for it.
EmitTask(task) ==
  /\ running' = BagAdd(running, task)
  /\ executions' = BagAdd(executions, task)

\* The tickets of the tasks of q, which is this.queue or this.queue with the
\* task enqueue has just pushed: a pushed task takes the next ticket.
TicketsOf(q) ==
  IF Len(q) = Len(order.tickets) THEN order
  ELSE [order EXCEPT !.tickets = Append(@, order.next), !.next = @ + 1]

\* processNext as it would be without the setTimeout that calls it again.
ProcessNextNoTimer(q, pt, tm) ==
  IF Len(q) = 0
  THEN /\ processing' = FALSE
       /\ processingTask' = pt
       /\ queue' = q
       /\ queueTimers' = tm
       /\ UNCHANGED <<running, executions, order>>
  ELSE /\ processing' = TRUE
       /\ processingTask' = Head(q)
       /\ queue' = Tail(q)
       /\ order' = [TicketsOf(q) EXCEPT !.tickets = Tail(@),
                                        !.last = Head(TicketsOf(q).tickets)]
       /\ EmitTask(Head(q))
       /\ queueTimers' = tm

\* processNext(), called with queue q, processingTask pt and tm timers pending.
ProcessNext(q, pt, tm) ==
  IF Len(q) = 0
  THEN /\ processing' = FALSE
       /\ processingTask' = pt
       /\ queue' = q
       /\ queueTimers' = tm
       /\ UNCHANGED <<running, executions, order>>
  ELSE /\ processing' = TRUE
       /\ processingTask' = Head(q)
       /\ queue' = Tail(q)
       /\ order' = [TicketsOf(q) EXCEPT !.tickets = Tail(@),
                                        !.last = Head(TicketsOf(q).tickets)]
       /\ EmitTask(Head(q))
       /\ queueTimers' = tm + 1

\* enqueue as it would be with unshift in place of push.
EnqueueTaskFront(task) ==
  IF InQueue(task) \/ BeingProcessed(task)
  THEN UNCHANGED <<queue, processing, processingTask, queueTimers, running, executions,
                   order>>
  ELSE IF ~processing
       THEN ProcessNext(<<task>> \o queue, processingTask, queueTimers)
       ELSE /\ queue' = <<task>> \o queue
            /\ order' = [order EXCEPT !.tickets = <<order.next>> \o @, !.next = @ + 1]
            /\ UNCHANGED <<processing, processingTask, queueTimers, running,
                           executions>>

\* enqueue(task)
EnqueueTask(task) ==
  IF InQueue(task) \/ BeingProcessed(task)
  THEN UNCHANGED <<queue, processing, processingTask, queueTimers, running, executions,
                   order>>
  ELSE IF ~processing
       THEN ProcessNext(Append(queue, task), processingTask, queueTimers)
       ELSE /\ queue' = Append(queue, task)
            /\ order' = TicketsOf(Append(queue, task))
            /\ UNCHANGED <<processing, processingTask, queueTimers, running,
                           executions>>

\* A caller enqueues a task.
Enqueue(task) ==
  /\ UNCHANGED utilVars
  /\ accepted < MaxEnqueues
  /\ accepted' = accepted + 1
  /\ EnqueueTask(task)
  /\ UNCHANGED <<connVars, ingestVars, envVars>>
  /\ UNCHANGED hydVars

\* The setTimeout callback of processNext fires, 100 ms after the emit:
\* processingTask = null, then processNext().
QueueTimerFire ==
  /\ UNCHANGED utilVars
  /\ queueTimers > 0
  /\ ProcessNext(queue, NoTask, queueTimers - 1)
  /\ UNCHANGED <<accepted, connVars, ingestVars, envVars>>
  /\ UNCHANGED hydVars

\* clear() as it would be if it reset the flags and left this.queue.
ClearKeepsQueue ==
  /\ UNCHANGED utilVars
  /\ processing' = FALSE
  /\ processingTask' = NoTask
  /\ order' = [order EXCEPT !.cleared = order.next]
  /\ UNCHANGED <<queue, queueTimers, running, executions, accepted>>
  /\ UNCHANGED <<connVars, ingestVars, envVars>>
  /\ UNCHANGED hydVars

\* clear(): the queue is emptied and the flags are reset; a pending
\* setTimeout callback of processNext stays pending.
Clear ==
  /\ UNCHANGED utilVars
  /\ queue' = <<>>
  /\ processing' = FALSE
  /\ processingTask' = NoTask
  /\ order' = [order EXCEPT !.tickets = <<>>, !.cleared = order.next]
  /\ UNCHANGED <<queueTimers, running, executions, accepted>>
  /\ UNCHANGED <<connVars, ingestVars, envVars>>
  /\ UNCHANGED hydVars

\* The "task" handler of index.ts returns (hydration finished, or its failure
\* was caught and logged).
HandlerDone(task) ==
  /\ UNCHANGED utilVars
  /\ BagIn(task, running)
  /\ running' = BagRemove(running, task)
  /\ UNCHANGED <<queue, processing, processingTask, queueTimers, executions, accepted,
                 order>>
  /\ UNCHANGED <<connVars, ingestVars, envVars>>
  /\ UNCHANGED hydVars

\* ------------------------------------------------- labels, frames, filter
\* LabelEvent (firehose/decoder.ts); a missing field is the empty string.
Label(src, uri, val, cts, neg) ==
  [src |-> src, uri |-> uri, val |-> val, cts |-> cts, neg |-> neg]

LabelSpam == Label("did:plc:labeler", PostUri, "spam", "2025-01-15T12:00:00Z", FALSE)
LabelSpamNeg == Label("did:plc:labeler", PostUri, "spam", "2025-01-15T12:00:00Z", TRUE)
LabelPorn == Label("did:plc:labeler", DidUri, "porn", "2025-01-15T12:00:01Z", FALSE)
LabelNoSrc == Label("", PostUri, "spam", "2025-01-15T12:00:02Z", FALSE)

Labels == {LabelSpam, LabelSpamNeg, LabelPorn, LabelNoSrc}

\* The key of the labels table's UNIQUE(uri, val, cts).
Triple(label) == [uri |-> label.uri, val |-> label.val, cts |-> label.cts]

\* A frame as decodeFirehoseMessage sees it: whether it decodes, and the fields
\* of the decoded message.  Its seq is that of its place in the log.
Frame(decodes, op, t, labels) ==
  [decodes |-> decodes, op |-> op, t |-> t, labels |-> labels]

LabelsFrame(labels) == Frame(TRUE, 1, "#labels", labels)

Frames == {LabelsFrame(<<LabelSpam>>), LabelsFrame(<<LabelSpam, LabelPorn>>),
           LabelsFrame(<<LabelSpamNeg>>), LabelsFrame(<<LabelNoSrc>>),
           LabelsFrame(<<LabelPorn>>), LabelsFrame(<<>>),
           Frame(TRUE, 1, "#info", <<>>), Frame(FALSE, 0, "", <<>>)}

SeqOf(i) == FirstSeq + i - 1

\* extractLabelFromMessage(message): the first label of a "#labels" message
\* with op 1, as a sequence of zero or one label.
ExtractLabelFromMessage(message) ==
  IF message.op # 1 THEN <<>>
  ELSE IF message.t # "#labels" THEN <<>>
  ELSE IF Len(message.labels) = 0 THEN <<>>
  ELSE <<message.labels[1]>>

\* extractLabelsFromMessage as it would be if it returned the first label only.
ExtractLabelsFromMessageFirst(message) ==
  IF message.kind = "null" THEN <<>>
  ELSE IF message.labels.kind = "array" /\ Len(message.labels.items) > 0
  THEN <<message.labels.items[1]>>
  ELSE <<>>

\* extractLabelsFromMessage(message) of firehose/decoder.ts.  The message is
\* null or an object; its labels property is absent, an array of items, or a
\* value of another type.
ExtractLabelsFromMessage(message) ==
  IF message.kind = "null" THEN <<>>
  ELSE IF message.labels.kind = "array" THEN message.labels.items
  ELSE <<>>

\* validateLabel as it would be if it did not look at cts.
ValidateLabelNoCts(label) ==
  ~(label.src = "" \/ label.uri = NoUri \/ label.val = "")

\* validateLabel(label)
ValidateLabel(label) ==
  ~(label.src = "" \/ label.uri = NoUri \/ label.val = "" \/ label.cts = "")

\* new LabelFilter(): allowedLabels is null (enabled FALSE) unless the
\* configured list is non-empty.
NewLabelFilter(captureLabels) ==
  IF Len(captureLabels) > 0
  THEN [enabled |-> TRUE, vals |-> {captureLabels[k] : k \in 1..Len(captureLabels)}]
  ELSE [enabled |-> FALSE, vals |-> {}]

\* shouldCapture as it would be if it never consulted the allow-list.
ShouldCaptureAlways(filter, label) == TRUE

\* LabelFilter.shouldCapture(label)
ShouldCapture(filter, label) ==
  IF ~filter.enabled THEN TRUE ELSE label.val \in filter.vals

\* The labels the "message" handler emits for a frame: none when the frame does
\* not decode, is "#info", or its first label is missing, invalid or filtered.
EmittedFor(frame, filter) ==
  IF ~frame.decodes THEN <<>>
  ELSE IF frame.t = "#info" THEN <<>>
  ELSE LET found == ExtractLabelFromMessage(frame) IN
       IF Len(found) = 0 THEN <<>>
       ELSE IF ~ValidateLabel(found[1]) THEN <<>>
       ELSE IF ~ShouldCapture(filter, found[1]) THEN <<>>
       ELSE found

\* --------------------------------------------------------------- cursor
CursorNull == [kind |-> "null", n |-> 0]
Num(n) == [kind |-> "num", n |-> n]

\* Number.prototype.toString(): the decimal digits of n.
RECURSIVE NumToString(_)
NumToString(n) == IF n < 10 THEN <<n>> ELSE Append(NumToString(n \div 10), n % 10)

RECURSIVE DigitsValue(_)
DigitsValue(d) ==
  IF Len(d) = 0 THEN 0
  ELSE 10 * DigitsValue(SubSeq(d, 1, Len(d) - 1)) + d[Len(d)]

\* What loadCursor leaves in this.cursor.
LoadedCursor(file) ==
  LET \* parseInt(data.trim(), 10) of a string of digits: NaN when it is empty
      parseInt(data) ==
        IF Len(data) = 0 THEN [kind |-> "nan", n |-> 0] ELSE Num(DigitsValue(data))
  IN IF file.exists THEN parseInt(file.data) ELSE CursorNull

\* ------------------------------------------------------ FirehoseSubscriber
NoSocket == 0

Live(id) == sockets[id].state \in {"connecting", "open"}

\* The first frame the labeler sends on a connection opened with cursor cur:
\* the frame after the cursor, the whole log when there is no cursor, nothing
\* when the cursor is not a number or lies beyond the log.
ServerStart(cur) ==
  IF cur.kind = "null" THEN 1
  ELSE IF cur.kind = "nan" THEN MaxSeq + 1
  ELSE IF cur.n < FirstSeq THEN 1
  ELSE cur.n - FirstSeq + 2

\* connect(), with this.cursor = cur: constructs a WebSocket and keeps it in
\* this.ws.
Connect(cur) ==
  /\ connects' = connects + 1
  /\ ws' = connects + 1
  /\ sockets' = (connects + 1 :> [state |-> "connecting", pos |-> ServerStart(cur)]) @@ sockets

BaseReconnectDelay == 1000
MaxReconnectDelay == 30000

\* ReconnectDelay as it would be without the cap of maxReconnectDelay.
ReconnectDelayUncapped(attempts) == BaseReconnectDelay * Pow2(attempts)

\* The delay scheduleReconnect computes with this.reconnectAttempts = attempts.
ReconnectDelay(attempts) ==
  Min(BaseReconnectDelay * Pow2(attempts), MaxReconnectDelay)

\* scheduleReconnect()
ScheduleReconnect ==
  /\ timers' = Append(timers, ReconnectDelay(reconnectAttempts))
  /\ reconnectAttempts' = reconnectAttempts + 1
  /\ reconnectsSinceOpen' = reconnectsSinceOpen + 1

\* start(): loadCursor() begins reading cursor.txt.
Start ==
  /\ UNCHANGED utilVars
  /\ phase = "down"
  /\ phase' = "loading"
  /\ UNCHANGED <<ws, sockets, connects, reconnectAttempts, shouldReconnect, timers,
                 reconnectsSinceOpen, stopped, connectsAtStop>>
  /\ UNCHANGED <<queueVars, ingestVars, envVars>>
  /\ UNCHANGED hydVars

\* start() resumes: loadCursor() sets this.cursor, then connect().
LoadCursorDone ==
  /\ UNCHANGED utilVars
  /\ phase = "loading"
  /\ phase' = "up"
  /\ cursor' = LoadedCursor(cursorFile)
  /\ Connect(LoadedCursor(cursorFile))
  /\ UNCHANGED <<reconnectAttempts, shouldReconnect, timers, reconnectsSinceOpen,
                 stopped, connectsAtStop>>
  /\ UNCHANGED <<writes, inserts, cursorFile, labelsTable, emitted, cursorSaves,
                 delivered>>
  /\ UNCHANGED <<queueVars, envVars>>
  /\ UNCHANGED hydVars

\* ws.on("open")
Open(id) ==
  /\ UNCHANGED utilVars
  /\ id \in DOMAIN sockets
  /\ sockets[id].state = "connecting"
  /\ sockets' = [sockets EXCEPT ![id].state = "open"]
  /\ reconnectAttempts' = 0
  /\ reconnectsSinceOpen' = 0
  /\ UNCHANGED <<phase, ws, connects, shouldReconnect, timers, stopped, connectsAtStop>>
  /\ UNCHANGED <<queueVars, ingestVars, envVars>>
  /\ UNCHANGED hydVars

\* SocketError as it would be if the error handler scheduled a reconnect of
\* its own, besides the one of the close handler.
SocketErrorReconnects(id) ==
  /\ UNCHANGED utilVars
  /\ id \in DOMAIN sockets
  /\ Live(id)
  /\ budget.faults > 0
  /\ budget' = [budget EXCEPT !.faults = @ - 1]
  /\ sockets' = [sockets EXCEPT ![id].state = "closing"]
  /\ ScheduleReconnect
  /\ UNCHANGED <<phase, ws, connects, shouldReconnect, stopped, connectsAtStop>>
  /\ UNCHANGED <<queueVars, ingestVars, log, allowedLabels>>
  /\ UNCHANGED hydVars

\* ws.on("error"): logged and re-emitted; the socket then closes.
SocketError(id) ==
  /\ UNCHANGED utilVars
  /\ id \in DOMAIN sockets
  /\ Live(id)
  /\ budget.faults > 0
  /\ budget' = [budget EXCEPT !.faults = @ - 1]
  /\ sockets' = [sockets EXCEPT ![id].state = "closing"]
  /\ UNCHANGED <<phase, ws, connects, reconnectAttempts, shouldReconnect, timers,
                 reconnectsSinceOpen, stopped, connectsAtStop>>
  /\ UNCHANGED <<queueVars, ingestVars, log, allowedLabels>>
  /\ UNCHANGED hydVars

\* ws.on("close"): of a socket that was closing, or one the peer drops.
Close(id) ==
  /\ UNCHANGED utilVars
  /\ id \in DOMAIN sockets
  /\ IF Live(id)
     THEN /\ budget.faults > 0
          /\ budget' = [budget EXCEPT !.faults = @ - 1]
     ELSE UNCHANGED budget
  /\ ws' = NoSocket
  /\ sockets' = [i \in DOMAIN sockets \ {id} |-> sockets[i]]
  /\ IF shouldReconnect
     THEN ScheduleReconnect
     ELSE UNCHANGED <<timers, reconnectAttempts, reconnectsSinceOpen>>
  /\ UNCHANGED <<phase, connects, shouldReconnect, stopped, connectsAtStop>>
  /\ UNCHANGED <<queueVars, ingestVars, log, allowedLabels>>
  /\ UNCHANGED hydVars

\* ReconnectTimerFire as it would be if the callback connected without
\* reading shouldReconnect.
ReconnectTimerFireUnguarded(k) ==
  /\ UNCHANGED utilVars
  /\ k \in 1..Len(timers)
  /\ timers' = RemoveAt(timers, k)
  /\ Connect(cursor)
  /\ UNCHANGED <<phase, reconnectAttempts, shouldReconnect, reconnectsSinceOpen,
                 stopped, connectsAtStop>>
  /\ UNCHANGED <<queueVars, ingestVars, envVars>>
  /\ UNCHANGED hydVars

\* ReconnectTimerFire as it would be if connect() sent no cursor.
ReconnectTimerFireNoCursor(k) ==
  /\ UNCHANGED utilVars
  /\ k \in 1..Len(timers)
  /\ timers' = RemoveAt(timers, k)
  /\ IF shouldReconnect
     THEN Connect(CursorNull)
     ELSE UNCHANGED <<ws, sockets, connects>>
  /\ UNCHANGED <<phase, reconnectAttempts, shouldReconnect, reconnectsSinceOpen,
                 stopped, connectsAtStop>>
  /\ UNCHANGED <<queueVars, ingestVars, envVars>>
  /\ UNCHANGED hydVars

\* The setTimeout callback of scheduleReconnect fires.
ReconnectTimerFire(k) ==
  /\ UNCHANGED utilVars
  /\ k \in 1..Len(timers)
  /\ timers' = RemoveAt(timers, k)
  /\ IF shouldReconnect
     THEN Connect(cursor)
     ELSE UNCHANGED <<ws, sockets, connects>>
  /\ UNCHANGED <<phase, reconnectAttempts, shouldReconnect, reconnectsSinceOpen,
                 stopped, connectsAtStop>>
  /\ UNCHANGED <<queueVars, ingestVars, envVars>>
  /\ UNCHANGED hydVars

\* stop(), from the SIGINT/SIGTERM handlers index.ts registers once start()
\* has returned.
Stop ==
  /\ UNCHANGED utilVars
  /\ phase = "up"
  /\ budget.stops > 0
  /\ budget' = [budget EXCEPT !.stops = @ - 1]
  /\ shouldReconnect' = FALSE
  /\ IF ws # NoSocket
     THEN /\ sockets' = [sockets EXCEPT ![ws].state = "closing"]
          /\ ws' = NoSocket
     ELSE UNCHANGED <<ws, sockets>>
  /\ stopped' = TRUE
  /\ connectsAtStop' = connects
  /\ UNCHANGED <<phase, connects, reconnectAttempts, timers, reconnectsSinceOpen>>
  /\ UNCHANGED <<queueVars, ingestVars, log, allowedLabels>>
  /\ UNCHANGED hydVars

\* ------------------------------------------------------------ ingestion
\* saveCursor(seq) up to its await: fs.writeFile(CURSOR_FILE, ...) is issued
\* and joins writes as [seq, stage "issued"].

\* Message as it would be if it saved the cursor of every frame that decodes.
MessageSavesEveryFrame(id) ==
  /\ UNCHANGED utilVars
  /\ id \in DOMAIN sockets
  /\ sockets[id].state = "open"
  /\ sockets[id].pos <= MaxSeq
  /\ sockets[id].pos <= Len(log) + 1
  /\ budget.frames > 0
  /\ budget' = [budget EXCEPT !.frames = @ - 1]
  /\ LET i == sockets[id].pos IN
     \E frame \in IF i <= Len(log) THEN {log[i]} ELSE Frames :
       LET out == EmittedFor(frame, allowedLabels) IN
       /\ log' = IF i <= Len(log) THEN log ELSE Append(log, frame)
       /\ sockets' = [sockets EXCEPT ![id].pos = i + 1]
       /\ IF Len(out) = 0
          THEN /\ UNCHANGED <<inserts, emitted>>
               /\ IF frame.decodes /\ SeqOf(i) # 0
                  THEN /\ writes' = Append(writes, [seq |-> SeqOf(i), stage |-> "issued"])
                       /\ cursorSaves' = cursorSaves \cup {i}
                  ELSE UNCHANGED <<writes, cursorSaves>>
          ELSE /\ inserts' = BagAdd(inserts, out[1])
               /\ emitted' = [emitted EXCEPT ![i] = @ \cup {out[1]}]
               /\ IF SeqOf(i) # 0
                  THEN /\ writes' = Append(writes, [seq |-> SeqOf(i), stage |-> "issued"])
                       /\ cursorSaves' = cursorSaves \cup {i}
                  ELSE UNCHANGED <<writes, cursorSaves>>
  /\ UNCHANGED <<phase, ws, connects, reconnectAttempts, shouldReconnect, timers,
                 reconnectsSinceOpen, stopped, connectsAtStop>>
  /\ UNCHANGED <<cursor, cursorFile, labelsTable, delivered>>
  /\ UNCHANGED <<queueVars, allowedLabels>>
  /\ UNCHANGED hydVars

\* Message as it would be if a frame that does not decode ended the
\* connection.
MessageDecodeFailureCloses(id) ==
  /\ UNCHANGED utilVars
  /\ id \in DOMAIN sockets
  /\ sockets[id].state = "open"
  /\ sockets[id].pos <= MaxSeq
  /\ sockets[id].pos <= Len(log) + 1
  /\ budget.frames > 0
  /\ budget' = [budget EXCEPT !.frames = @ - 1]
  /\ LET i == sockets[id].pos IN
     \E frame \in IF i <= Len(log) THEN {log[i]} ELSE Frames :
       LET out == EmittedFor(frame, allowedLabels) IN
       /\ log' = IF i <= Len(log) THEN log ELSE Append(log, frame)
       /\ sockets' = [sockets EXCEPT ![id].pos = i + 1,
                                   ![id].state = IF frame.decodes THEN @ ELSE "closing"]
       /\ IF Len(out) = 0
          THEN UNCHANGED <<inserts, emitted, writes, cursorSaves>>
          ELSE /\ inserts' = BagAdd(inserts, out[1])
               /\ emitted' = [emitted EXCEPT ![i] = @ \cup {out[1]}]
               /\ IF SeqOf(i) # 0
                  THEN /\ writes' = Append(writes, [seq |-> SeqOf(i), stage |-> "issued"])
                       /\ cursorSaves' = cursorSaves \cup {i}
                  ELSE UNCHANGED <<writes, cursorSaves>>
  /\ UNCHANGED <<phase, ws, connects, reconnectAttempts, shouldReconnect, timers,
                 reconnectsSinceOpen, stopped, connectsAtStop>>
  /\ UNCHANGED <<cursor, cursorFile, labelsTable, delivered>>
  /\ UNCHANGED <<queueVars, allowedLabels>>
  /\ UNCHANGED hydVars

\* ws.on("message") for the next frame of an open socket, up to its await:
\* decode, extract, validate, filter, emit "label" (the label handler of
\* index.ts starts and awaits labelsRepo.insert), then saveCursor(message.seq).
Message(id) ==
  /\ UNCHANGED utilVars
  /\ id \in DOMAIN sockets
  /\ sockets[id].state = "open"
  /\ sockets[id].pos <= MaxSeq
  /\ sockets[id].pos <= Len(log) + 1
  /\ budget.frames > 0
  /\ budget' = [budget EXCEPT !.frames = @ - 1]
  /\ LET i == sockets[id].pos IN
     \E frame \in IF i <= Len(log) THEN {log[i]} ELSE Frames :
       LET out == EmittedFor(frame, allowedLabels) IN
       /\ log' = IF i <= Len(log) THEN log ELSE Append(log, frame)
       /\ sockets' = [sockets EXCEPT ![id].pos = i + 1]
       /\ IF Len(out) = 0
          THEN UNCHANGED <<inserts, emitted, writes, cursorSaves>>
          ELSE /\ inserts' = BagAdd(inserts, out[1])
               /\ emitted' = [emitted EXCEPT ![i] = @ \cup {out[1]}]
               /\ IF SeqOf(i) # 0
                  THEN /\ writes' = Append(writes, [seq |-> SeqOf(i), stage |-> "issued"])
                       /\ cursorSaves' = cursorSaves \cup {i}
                  ELSE UNCHANGED <<writes, cursorSaves>>
  /\ UNCHANGED <<phase, ws, connects, reconnectAttempts, shouldReconnect, timers,
                 reconnectsSinceOpen, stopped, connectsAtStop>>
  /\ UNCHANGED <<cursor, cursorFile, labelsTable, delivered>>
  /\ UNCHANGED <<queueVars, allowedLabels>>
  /\ UNCHANGED hydVars

\* fs.writeFile opens cursor.txt for writing: the file is created or truncated.
WriteOpen(k) ==
  /\ UNCHANGED utilVars
  /\ k \in 1..Len(writes)
  /\ writes[k].stage = "issued"
  /\ writes' = [writes EXCEPT ![k].stage = "opened"]
  /\ cursorFile' = [exists |-> TRUE, data |-> <<>>]
  /\ UNCHANGED <<cursor, inserts, labelsTable, emitted, cursorSaves, delivered>>
  /\ UNCHANGED <<queueVars, connVars, envVars>>
  /\ UNCHANGED hydVars

\* fs.writeFile writes cursor.toString() at the start of the file.
WriteData(k) ==
  /\ UNCHANGED utilVars
  /\ k \in 1..Len(writes)
  /\ writes[k].stage = "opened"
  /\ writes' = [writes EXCEPT ![k].stage = "written"]
  /\ LET \* write(2) of data at offset 0 of a file opened for writing: the
          \* bytes beyond the written ones stay
          old == cursorFile.data
          data == NumToString(writes[k].seq)
     IN cursorFile' = [exists |-> TRUE,
                       data |-> data \o SubSeq(old, Len(data) + 1, Len(old))]
  /\ UNCHANGED <<cursor, inserts, labelsTable, emitted, cursorSaves, delivered>>
  /\ UNCHANGED <<queueVars, connVars, envVars>>
  /\ UNCHANGED hydVars

\* saveCursor resumes after the await: this.cursor = cursor.
WriteDone(k) ==
  /\ UNCHANGED utilVars
  /\ k \in 1..Len(writes)
  /\ writes[k].stage = "written"
  /\ writes' = RemoveAt(writes, k)
  /\ cursor' = Num(writes[k].seq)
  /\ UNCHANGED <<inserts, cursorFile, labelsTable, emitted, cursorSaves, delivered>>
  /\ UNCHANGED <<queueVars, connVars, envVars>>
  /\ UNCHANGED hydVars

\* fs.writeFile rejects (the open or the write fails): saveCursor logs it.
WriteFail(k) ==
  /\ UNCHANGED utilVars
  /\ k \in 1..Len(writes)
  /\ writes[k].stage \in {"issued", "opened"}
  /\ writes' = RemoveAt(writes, k)
  /\ UNCHANGED <<cursor, inserts, cursorFile, labelsTable, emitted, cursorSaves,
                 delivered>>
  /\ UNCHANGED <<queueVars, connVars, envVars>>
  /\ UNCHANGED hydVars

\* InsertLabel as it would be with ON CONFLICT (uri, val, cts) DO UPDATE: the
\* row of the triple takes the fields of the new event.
InsertLabelUpsert(table, label) ==
  LET kept == {row \in BagToSet(table) : Triple(row) # Triple(label)}
  IN BagAdd([row \in kept |-> table[row]], label)

\* InsertLabel as it would be with a plain INSERT, without ON CONFLICT.
InsertLabelNoConflict(table, label) == BagAdd(table, label)

\* INSERT ... ON CONFLICT (uri, val, cts) DO NOTHING on the labels table.
InsertLabel(table, label) ==
  IF \E row \in BagToSet(table) : Triple(row) = Triple(label)
  THEN table ELSE BagAdd(table, label)

\* uri.startsWith("did:"), over the account identifiers of the model.
StartsWithDid(s) == s \in {"did:plc:user", "did:plc:xyz"}

\* RouteLabel as it would be if every at:// uri of three or more segments
\* were taken for a post.
RouteLabelAtLeastThree(uri) ==
  IF uri.at
  THEN IF Len(uri.segs) >= 3 THEN <<Task("post", uri)>>
       ELSE IF Len(uri.segs) = 1 THEN <<Task("profile", BareUri(uri.segs[1]))>>
       ELSE <<>>
  ELSE IF Len(uri.segs) > 0 /\ StartsWithDid(uri.segs[1])
       THEN <<Task("profile", uri)>>
       ELSE <<>>

\* The hydration task the label handler enqueues for a uri, as a sequence of
\* zero or one task.
RouteLabel(uri) ==
  IF uri.at
  THEN IF Len(uri.segs) = 3 THEN <<Task("post", uri)>>
       ELSE IF Len(uri.segs) = 1 THEN <<Task("profile", BareUri(uri.segs[1]))>>
       ELSE <<>>
  ELSE IF Len(uri.segs) > 0 /\ StartsWithDid(uri.segs[1])
       THEN <<Task("profile", uri)>>
       ELSE <<>>

\* subscriber.on("label") resumes after labelsRepo.insert resolved: the row is
\* in the table, and the hydration task of the uri is enqueued.
InsertDone(label) ==
  /\ UNCHANGED utilVars
  /\ BagIn(label, inserts)
  /\ inserts' = BagRemove(inserts, label)
  /\ labelsTable' = InsertLabel(labelsTable, label)
  /\ delivered' = BagAdd(delivered, Triple(label))
  /\ LET tasks == RouteLabel(label.uri) IN
     IF Len(tasks) = 0
     THEN UNCHANGED <<queue, processing, processingTask, queueTimers, running,
                      executions, order>>
     ELSE EnqueueTask(tasks[1])
  /\ UNCHANGED <<accepted, cursor, writes, cursorFile, emitted, cursorSaves>>
  /\ UNCHANGED <<connVars, envVars>>
  /\ UNCHANGED hydVars

\* labelsRepo.insert rejects: the label handler logs it and enqueues nothing.
InsertFail(label) ==
  /\ UNCHANGED utilVars
  /\ BagIn(label, inserts)
  /\ inserts' = BagRemove(inserts, label)
  /\ UNCHANGED <<cursor, writes, cursorFile, labelsTable, emitted, cursorSaves,
                 delivered>>
  /\ UNCHANGED <<queueVars, connVars, envVars>>
  /\ UNCHANGED hydVars

\* LabelCaptured as it would be if the label handler enqueued the task before
\* it awaited labelsRepo.insert.
LabelCapturedEnqueues(label) ==
  /\ UNCHANGED utilVars
  /\ budget.frames > 0
  /\ budget' = [budget EXCEPT !.frames = @ - 1]
  /\ ValidateLabel(label)
  /\ ShouldCapture(allowedLabels, label)
  /\ inserts' = BagAdd(inserts, label)
  /\ LET tasks == RouteLabel(label.uri) IN
     IF Len(tasks) = 0
     THEN UNCHANGED <<queue, processing, processingTask, queueTimers, running,
                      executions, order>>
     ELSE EnqueueTask(tasks[1])
  /\ UNCHANGED <<accepted, cursor, writes, cursorFile, labelsTable, emitted, cursorSaves,
                 delivered>>
  /\ UNCHANGED <<connVars, log, allowedLabels>>
  /\ UNCHANGED hydVars

\* The subscriber emits "label" for a label that passed validateLabel and the
\* filter: the label handler of index.ts starts and awaits labelsRepo.insert.
LabelCaptured(label) ==
  /\ UNCHANGED utilVars
  /\ budget.frames > 0
  /\ budget' = [budget EXCEPT !.frames = @ - 1]
  /\ ValidateLabel(label)
  /\ ShouldCapture(allowedLabels, label)
  /\ inserts' = BagAdd(inserts, label)
  /\ UNCHANGED <<cursor, writes, cursorFile, labelsTable, emitted, cursorSaves,
                 delivered>>
  /\ UNCHANGED <<queueVars, connVars, log, allowedLabels>>
  /\ UNCHANGED hydVars

\* The "message" handler has extracted a label from a frame: it drops the
\* label unless validateLabel and the filter accept it, and emits "label"
\* otherwise (the label handler of index.ts starts and awaits the insert).
LabelReceived(label) ==
  /\ budget.frames > 0
  /\ budget' = [budget EXCEPT !.frames = @ - 1]
  /\ call' = [fn |-> "validateLabel", in |-> label, out |-> ValidateLabel(label)]
  /\ inserts' = IF ~ValidateLabel(label) THEN inserts
                ELSE IF ~ShouldCapture(allowedLabels, label) THEN inserts
                ELSE BagAdd(inserts, label)
  /\ UNCHANGED limiter
  /\ UNCHANGED <<cursor, writes, cursorFile, labelsTable, emitted, cursorSaves,
                 delivered>>
  /\ UNCHANGED <<queueVars, connVars, log, allowedLabels>>
  /\ UNCHANGED hydVars

\* The process exits: memory is lost, cursor.txt, the database and the blob
\* storage stay.
ProcessExit ==
  /\ UNCHANGED utilVars
  /\ budget.faults > 0
  /\ budget' = [budget EXCEPT !.faults = @ - 1]
  /\ phase' = "down"
  /\ ws' = NoSocket
  /\ sockets' = <<>>
  /\ reconnectAttempts' = 0
  /\ shouldReconnect' = TRUE
  /\ timers' = <<>>
  /\ reconnectsSinceOpen' = 0
  /\ stopped' = FALSE
  /\ cursor' = CursorNull
  /\ writes' = <<>>
  /\ inserts' = EmptyBag
  /\ queue' = <<>>
  /\ processing' = FALSE
  /\ processingTask' = NoTask
  /\ queueTimers' = 0
  /\ running' = EmptyBag
  /\ executions' = EmptyBag
  /\ order' = [tickets |-> <<>>, next |-> 1, last |-> 0, cleared |-> 1]
  /\ handlers' = EmptyBag
  /\ fetches' = EmptyBag
  /\ UNCHANGED <<connects, connectsAtStop, accepted, cursorFile, labelsTable, emitted,
                 cursorSaves, delivered, log, allowedLabels>>
  /\ UNCHANGED <<postsTable, profilesTable, blobsTable, blobFiles, lastBlobWrite,
                 lastOutcome, checkedAbsent>>

\* The process is killed and started again with the same environment.
Kill ==
  /\ ProcessExit
  /\ UNCHANGED hydrateBlobs

\* The process is killed and started again with HYDRATE_BLOBS set anew:
\* loadConfig() reads process.env every time the process starts.
Restart(hb) ==
  /\ ProcessExit
  /\ hydrateBlobs' = hb

\* ------------------------------------------------------------ hydration
\* Optional string values of JavaScript and of the database.
Undefined == "<undefined>"
SqlNull == "<null>"

\* ---- the network: what the repository hosts and the directory serve ----
Cid1 == "bafy1"
Cid2 == "bafy2"

\* The bytes com.atproto.sync.getBlob serves for a content identifier.
BlobBytes(cid) == IF cid = Cid1 THEN <<7, 3>> ELSE <<0, 4>>

\* An image reference of a record: img.image.ref and img.image.mimeType;
\* cid "" stands for a reference extractCid cannot read.
Img(cid, mimeType) == [cid |-> cid, mimeType |-> mimeType]

\* One embed of a record: embed.images, embed.media.images, embed.video.
Embed(images, mediaImages, video) ==
  [images |-> images, mediaImages |-> mediaImages, video |-> video]

\* record.embed of the post records the network holds.
PostEmbeds == {
  <<>>,
  <<Embed(<<Img(Cid1, "image/jpeg")>>, <<>>, <<>>)>>,
  <<Embed(<<Img(Cid1, "image/jpeg"), Img(Cid1, "image/jpeg")>>, <<>>, <<>>)>>,
  <<Embed(<<>>, <<Img("", "image/jpeg")>>, <<Img(Cid2, "video/mp4")>>)>>}

\* ---- blobs/hasher.ts ----
RECURSIVE HashFold(_, _, _)
HashFold(bytes, mult, modulus) ==
  IF Len(bytes) = 0 THEN 1
  ELSE (HashFold(SubSeq(bytes, 1, Len(bytes) - 1), mult, modulus) * mult
        + bytes[Len(bytes)]) % modulus

\* computeSha256: the hex digest of the bytes, here two hex digits.
ComputeSha256(bytes) ==
  LET h == HashFold(bytes, 31, 256) IN <<h \div 16, h % 16>>

\* computePerceptualHash: one hex digit here.  sharp can read the image when
\* its metadata has a width and a height; otherwise the function logs the
\* error and throws it again.
ComputePerceptualHash(bytes) ==
  LET Decodable == Len(bytes) > 0 /\ bytes[1] # 0
  IN IF Decodable THEN [threw |-> FALSE, value |-> <<HashFold(bytes, 7, 16)>>]
     ELSE [threw |-> TRUE, value |-> <<>>]

\* computeBlobHashes as it would be without the try/catch around
\* computePerceptualHash.
ComputeBlobHashesRethrows(bytes, mimetype) ==
  LET Parts == CASE mimetype = "image/jpeg" -> <<"image/", "jpeg">>
                 [] mimetype = "image/png" -> <<"image/", "png">>
                 [] mimetype = "image/svg+xml" -> <<"image/", "svg", "+xml">>
                 [] mimetype = "video/mp4" -> <<"video/", "mp4">>
                 [] mimetype = "text/svg" -> <<"text/", "svg">>
                 [] mimetype = "application/image/png" ->
                      <<"application/", "image/", "png">>
                 [] OTHER -> <<>>
      StartsWithImage == mimetype # Undefined /\ Len(Parts) > 0 /\ Parts[1] = "image/"
      IncludesSvg == \E i \in 1..Len(Parts) : Parts[i] = "svg"
      sha256 == ComputeSha256(bytes)
      phash == ComputePerceptualHash(bytes)
  IN IF StartsWithImage /\ ~IncludesSvg
     THEN [threw |-> phash.threw, sha256 |-> sha256, phash |-> phash.value]
     ELSE [threw |-> FALSE, sha256 |-> sha256, phash |-> <<>>]

\* computeBlobHashes(buffer, mimetype); a missing phash is <<>>.  The media
\* type is undefined or a string, given by its parts: startsWith("image/")
\* reads the first, includes("svg") all of them.
ComputeBlobHashes(bytes, mimetype) ==
  LET Parts == CASE mimetype = "image/jpeg" -> <<"image/", "jpeg">>
                 [] mimetype = "image/png" -> <<"image/", "png">>
                 [] mimetype = "image/svg+xml" -> <<"image/", "svg", "+xml">>
                 [] mimetype = "video/mp4" -> <<"video/", "mp4">>
                 [] mimetype = "text/svg" -> <<"text/", "svg">>
                 [] mimetype = "application/image/png" ->
                      <<"application/", "image/", "png">>
                 [] OTHER -> <<>>
      StartsWithImage == mimetype # Undefined /\ Len(Parts) > 0 /\ Parts[1] = "image/"
      IncludesSvg == \E i \in 1..Len(Parts) : Parts[i] = "svg"
      sha256 == ComputeSha256(bytes)
      phash == ComputePerceptualHash(bytes)
  IN IF StartsWithImage /\ ~IncludesSvg
     THEN IF ~phash.threw
          THEN [threw |-> FALSE, sha256 |-> sha256, phash |-> phash.value]
          ELSE [threw |-> FALSE, sha256 |-> sha256, phash |-> <<>>]
     ELSE [threw |-> FALSE, sha256 |-> sha256, phash |-> <<>>]

\* ---- BlobProcessor (blobs/processor.ts) ----
RECURSIVE RefsOf(_)
RefsOf(imgs) ==
  IF Len(imgs) = 0 THEN <<>>
  ELSE (IF Head(imgs).cid # "" THEN <<Head(imgs)>> ELSE <<>>) \o RefsOf(Tail(imgs))

\* extractBlobReferences(embedsJson)
RECURSIVE ExtractBlobReferences(_)
\* extractBlobReferences as it would be if it read embed.video before
\* embed.media.images.
ExtractBlobReferencesVideoFirst(embeds) ==
  IF Len(embeds) = 0 THEN <<>>
  ELSE RefsOf(Head(embeds).images) \o RefsOf(Head(embeds).video)
       \o RefsOf(Head(embeds).mediaImages) \o ExtractBlobReferences(Tail(embeds))

ExtractBlobReferences(embeds) ==
  IF Len(embeds) = 0 THEN <<>>
  ELSE RefsOf(Head(embeds).images) \o RefsOf(Head(embeds).mediaImages)
       \o RefsOf(Head(embeds).video) \o ExtractBlobReferences(Tail(embeds))

\* The owner uri "profile://<did>/<type>", split at "/" like every uri.
ProfileBlobUri(did, type) == [at |-> FALSE, segs |-> <<"profile:", "", did, type>>]

\* parseBlobUri(uri).did: the regular expression for profile:// uris, else
\* the second element of uri.replace("at://", "").split("/").
ParseBlobUri(uri) ==
  IF /\ ~uri.at
     /\ Len(uri.segs) = 4
     /\ uri.segs[1] = "profile:" /\ uri.segs[2] = ""
     /\ uri.segs[3] # ""
     /\ uri.segs[4] \in {"avatar", "banner"}
  THEN uri.segs[3]
  ELSE IF Len(uri.segs) >= 2 THEN uri.segs[2] ELSE Undefined

\* A row of the blobs table; phash and storage_path are <<>> for NULL.
BlobRow(post_uri, blob_cid, sha256, phash, storage_path, mimetype) ==
  [post_uri |-> post_uri, blob_cid |-> blob_cid, sha256 |-> sha256, phash |-> phash,
   storage_path |-> storage_path, mimetype |-> mimetype]

\* BlobsRepository.insert: ON CONFLICT (post_uri, blob_cid) DO UPDATE.
InsertBlobRow(table, row) ==
  {r \in table : ~(r.post_uri = row.post_uri /\ r.blob_cid = row.blob_cid)} \cup {row}

\* BlobsRepository.findByCid: the rows of which LIMIT 1 returns one.
FindByCidRows(cid) == {r \in blobsTable : r.blob_cid = cid}

\* ---- LocalBlobStorage (blobs/storage/local.ts) ----
\* getExtensionFromMime(mimeType): "" for a missing type, else the entry of
\* mimeMap for mimeType.toLowerCase(), or "".
GetExtensionFromMime(mimeType) ==
  IF mimeType \in {Undefined, ""} THEN ""
  ELSE LET lower == IF mimeType = "IMAGE/PNG" THEN "image/png" ELSE mimeType
       IN CASE lower = "image/jpeg" -> ".jpg"
            [] lower = "image/jpg" -> ".jpg"
            [] lower = "image/png" -> ".png"
            [] lower = "image/webp" -> ".webp"
            [] lower = "image/gif" -> ".gif"
            [] lower = "video/mp4" -> ".mp4"
            [] lower = "video/webm" -> ".webm"
            [] OTHER -> ""

\* path.join(basePath, cid.substring(0, 2), cid.substring(2, 4), cid + extension):
\* the two directories are given by the cid.
StorePath(cid, extension) == <<"blobs", cid, extension>>

\* store(cid, data, mimeType) writes the file, replacing the one at its
\* path, and returns the path.
StoreFile(files, cid, data, mimeType) ==
  LET fullPath == StorePath(cid, GetExtensionFromMime(mimeType))
  IN {f \in files : f.path # fullPath} \cup {[path |-> fullPath, data |-> data]}

\* retrieve(cid): the data of the first file that can be read among the
\* possible extensions, or null.
Retrieve(files, cid) ==
  LET possibleExtensions == <<"", ".jpg", ".jpeg", ".png", ".webp", ".mp4">>
      Readable(i) == \E f \in files : f.path = StorePath(cid, possibleExtensions[i])
      found == {i \in 1..Len(possibleExtensions) : Readable(i)}
  IN IF found = {} THEN [kind |-> "null", data |-> <<>>]
     ELSE LET first == CHOOSE i \in found : \A j \in found : i <= j
          IN [kind |-> "buffer",
              data |-> (CHOOSE f \in files :
                          f.path = StorePath(cid, possibleExtensions[first])).data]

\* ---- hydration calls in flight ----
\* maxAttempts of the withRetry calls of the hydration services.
MaxAttempts == 3

\* One call of processBlobs(postUri, embedsJson): the owner and the
\* references still to process.
BlobCall(owner, refs) == [owner |-> owner, refs |-> refs]

NoRow == BlobRow(NoUri, "", <<>>, <<>>, <<>>, "")

\* A hydratePost / hydrateProfile call suspended at an await.  The fields
\* from complete on are history: what held when the call started, what the
\* network answered, how many requests and database writes it made, the
\* processBlob calls that ended, each with whether it wrote its row, and the
\* identifiers whose DID document was requested, one entry per request.
Activation(task, complete, afterChecked) ==
  [task |-> task, pc |-> "getRecord", attempt |-> 1,
   embeds |-> <<>>, avatarCid |-> Undefined, bannerCid |-> Undefined,
   calls |-> <<>>, row |-> NoRow,
   complete |-> complete, afterChecked |-> afterChecked, notFound |-> FALSE,
   foundAbsent |-> FALSE, twoSame |-> FALSE, netFailure |-> FALSE,
   gets |-> 0, blobFetches |-> 0, dbWrites |-> 0, processed |-> <<>>,
   resolved |-> <<>>]

\* What a finished call leaves in the history.
Summary(h, raised) ==
  [task |-> h.task, raised |-> raised, complete |-> h.complete,
   afterChecked |-> h.afterChecked, notFound |-> h.notFound, twoSame |-> h.twoSame,
   netFailure |-> h.netFailure, gets |-> h.gets, blobFetches |-> h.blobFetches,
   dbWrites |-> h.dbWrites, processed |-> h.processed, resolved |-> h.resolved]

NoOutcome == [task |-> NoTask, raised |-> FALSE, complete |-> FALSE,
              afterChecked |-> FALSE, notFound |-> FALSE, twoSame |-> FALSE,
              netFailure |-> FALSE, gets |-> 0, blobFetches |-> 0, dbWrites |-> 0,
              processed |-> <<>>, resolved |-> <<>>]

NoBlobWrite == [row |-> NoRow, switch |-> FALSE, fresh |-> FALSE]

\* The did of a profile task: its identifier is the bare did.
DidOf(task) == task.identifier.segs[1]

\* The call goes on to its next await.
Continue(h, h2) ==
  /\ handlers' = BagAdd(BagRemove(handlers, h), h2)
  /\ UNCHANGED <<running, lastOutcome>>

\* The call returns or throws: the "task" handler of index.ts returns, after
\* logging what it caught.
Finish(h, h2, raised) ==
  /\ handlers' = BagRemove(handlers, h)
  /\ running' = BagRemove(running, h.task)
  /\ lastOutcome' = Summary(h2, raised)

\* A processBlobs whose loop ends at the first reference that was not stored.
NextRefStopsAtFailure(h, h2) ==
  LET rest == IF h2.processed[Len(h2.processed)].stored
              THEN Tail(Head(h2.calls).refs) ELSE <<>>
      calls == IF Len(rest) > 0
               THEN <<BlobCall(Head(h2.calls).owner, rest)>> \o Tail(h2.calls)
               ELSE Tail(h2.calls)
      h3 == [h2 EXCEPT !.calls = calls, !.pc = "findByCid", !.row = NoRow]
  IN IF Len(calls) = 0 THEN Finish(h, h3, FALSE) ELSE Continue(h, h3)

\* processBlobs goes to its next reference, the service to its next
\* processBlobs call, and the hydration returns after the last one.
NextRef(h, h2) ==
  LET rest == Tail(Head(h2.calls).refs)
      calls == IF Len(rest) > 0
               THEN <<BlobCall(Head(h2.calls).owner, rest)>> \o Tail(h2.calls)
               ELSE Tail(h2.calls)
      h3 == [h2 EXCEPT !.calls = calls, !.pc = "findByCid", !.row = NoRow]
  IN IF Len(calls) = 0 THEN Finish(h, h3, FALSE) ELSE Continue(h, h3)

\* The processBlobs calls of a service start, or it returns without any.
StartBlobs(h, h2, calls) ==
  LET nonEmpty == SelectSeq(calls, LAMBDA c : Len(c.refs) > 0)
      h3 == [h2 EXCEPT !.calls = nonEmpty, !.pc = "findByCid"]
  IN IF Len(nonEmpty) = 0 THEN Finish(h, h3, FALSE) ELSE Continue(h, h3)

\* ---- PostHydrationService.hydratePost, ProfileHydrationService.hydrateProfile
PostRow(uri, embeds) == [uri |-> uri, embeds |-> embeds]
ProfileRow(did, avatar_cid, banner_cid) ==
  [did |-> did, avatar_cid |-> avatar_cid, banner_cid |-> banner_cid]

\* A skip check that never finds the record.
ShouldSkipNever(task) == FALSE

\* The check the hydration returns on before any fetch: existingPost, or
\* existingProfile && !needsRehydration.
ShouldSkip(task) ==
  LET \* postsRepo.findByUri / profilesRepo.findByDid
      findByUri(uri) == {r \in postsTable : r.uri = uri}
      findByDid(did) == {r \in profilesTable : r.did = did}
      \* existingProfile.avatar_cid === null || existingProfile.banner_cid === null
      needsRehydration(row) == row.avatar_cid = SqlNull \/ row.banner_cid = SqlNull
  IN IF task.type = "post"
     THEN findByUri(task.identifier) # {}
     ELSE \E row \in findByDid(DidOf(task)) : ~needsRehydration(row)

\* History: a complete record of the subject is stored (a post row of the
\* uri, or a profile row of the did with avatar_cid and banner_cid).
CompleteRecord(task) ==
  \/ task.type = "post" /\ \E r \in postsTable : r.uri = task.identifier
  \/ /\ task.type = "profile"
     /\ \E r \in profilesTable :
          r.did = DidOf(task) /\ r.avatar_cid # SqlNull /\ r.banner_cid # SqlNull

\* The first await of the hydration resolves: the existing record is read,
\* and the call returns at once or goes on to fetch the record.
HydrateStart(task) ==
  /\ UNCHANGED utilVars
  /\ LET \* the calls in flight for the task
          hs == {h \in BagToSet(handlers) : h.task = task}
     IN CopiesIn(task, running) > BagCardinality([h \in hs |-> handlers[h]])
  /\ LET h == Activation(task, CompleteRecord(task), task \in checkedAbsent)
     IN IF ShouldSkip(task) \/ (task.type = "post" /\ Len(task.identifier.segs) # 3)
        THEN /\ running' = BagRemove(running, task)
             /\ lastOutcome' = Summary(h, FALSE)
             /\ UNCHANGED handlers
        ELSE /\ handlers' = BagAdd(handlers, h)
             /\ UNCHANGED <<running, lastOutcome>>
  /\ UNCHANGED <<queue, processing, processingTask, queueTimers, executions, accepted,
                 order>>
  /\ UNCHANGED <<hydrateBlobs, postsTable, profilesTable, blobsTable, blobFiles, fetches,
                 lastBlobWrite, checkedAbsent>>
  /\ UNCHANGED <<connVars, ingestVars, envVars>>

\* What the network answers to getRecord: the record, "not found", or a
\* failure the retry predicates accept (rate limit, network, server error).
\* ProfileRecords: record.avatar and record.banner of the profile records
\* the network holds.
GetRecordReplies(task) ==
  LET Reply(kind, embeds, profile) ==
        [kind |-> kind, embeds |-> embeds, profile |-> profile]
      NoProfile == [avatar |-> Undefined, banner |-> Undefined]
      ProfileRecords == {[avatar |-> Undefined, banner |-> Undefined],
                         [avatar |-> Cid1, banner |-> Undefined],
                         [avatar |-> Cid1, banner |-> Cid1]}
  IN {Reply("notFound", <<>>, NoProfile), Reply("transient", <<>>, NoProfile)}
     \cup (IF task.type = "post"
           THEN {Reply("ok", e, NoProfile) : e \in PostEmbeds}
           ELSE {Reply("ok", <<>>, p) : p \in ProfileRecords})

\* isRecordNotFoundError(error) of utils/retry.ts
IsRecordNotFoundError(kind) == kind = "notFound"

\* isRateLimitError, isNetworkError or isServerError accepts the failure.
IsRetryable(kind) == kind = "transient"

\* One attempt of withRetry(getRecord) is answered.
GetRecord(h, reply) ==
  /\ UNCHANGED utilVars
  /\ BagIn(h, handlers)
  /\ h.pc = "getRecord"
  /\ reply \in GetRecordReplies(h.task)
  /\ IF reply.kind = "transient"
     THEN budget.faults > 0 /\ budget' = [budget EXCEPT !.faults = @ - 1]
     ELSE UNCHANGED budget
  /\ LET h2 == [h EXCEPT !.gets = @ + 1,
                          !.notFound = @ \/ reply.kind = "notFound",
                          !.netFailure = @ \/ reply.kind = "transient"]
     IN
     IF reply.kind = "ok"
     THEN IF h.task.type = "post"
          THEN Continue(h, [h2 EXCEPT !.pc = "insertPost", !.embeds = reply.embeds,
                              !.twoSame =
                                LET refs == ExtractBlobReferences(reply.embeds) IN
                                \E i, j \in 1..Len(refs) :
                                  i < j /\ refs[i].cid = refs[j].cid])
          ELSE LET avatarCid == IF reply.profile.avatar # Undefined
                                THEN reply.profile.avatar ELSE ""
                   bannerCid == IF reply.profile.banner # Undefined
                                THEN reply.profile.banner ELSE ""
               IN Continue(h, [h2 EXCEPT !.pc = "getProfile", !.attempt = 1,
                                 !.avatarCid = avatarCid, !.bannerCid = bannerCid,
                                 !.foundAbsent = (avatarCid = "" \/ bannerCid = "")])
     ELSE IF IsRetryable(reply.kind) /\ h.attempt < MaxAttempts
     THEN Continue(h, [h2 EXCEPT !.attempt = @ + 1])
     ELSE IF h.task.type = "post" /\ IsRecordNotFoundError(reply.kind)
          THEN Finish(h, h2, FALSE)
          ELSE Finish(h, h2, TRUE)
  /\ UNCHANGED <<queue, processing, processingTask, queueTimers, executions, accepted,
                 order>>
  /\ UNCHANGED <<hydrateBlobs, postsTable, profilesTable, blobsTable, blobFiles, fetches,
                 lastBlobWrite, checkedAbsent>>
  /\ UNCHANGED <<connVars, ingestVars, log, allowedLabels>>

\* One attempt of withRetry(agent.getProfile) of hydrateProfile is answered.
GetProfile(h, ok) ==
  /\ UNCHANGED utilVars
  /\ BagIn(h, handlers)
  /\ h.pc = "getProfile"
  /\ IF ok
     THEN UNCHANGED budget
     ELSE budget.faults > 0 /\ budget' = [budget EXCEPT !.faults = @ - 1]
  /\ LET h2 == [h EXCEPT !.gets = @ + 1, !.netFailure = @ \/ ~ok] IN
     IF ok
     THEN Continue(h, [h2 EXCEPT !.pc = "insertProfile"])
     ELSE IF h.attempt < MaxAttempts
          THEN Continue(h, [h2 EXCEPT !.attempt = @ + 1])
          ELSE Finish(h, h2, TRUE)
  /\ UNCHANGED <<queue, processing, processingTask, queueTimers, executions, accepted,
                 order>>
  /\ UNCHANGED <<hydrateBlobs, postsTable, profilesTable, blobsTable, blobFiles, fetches,
                 lastBlobWrite, checkedAbsent>>
  /\ UNCHANGED <<connVars, ingestVars, log, allowedLabels>>

\* ProfilesRepository.insert binds every optional column as value || null;
\* ON CONFLICT (did) DO UPDATE.
InsertProfileRow(table, did, avatarCid, bannerCid) ==
  LET \* x || null, as the repository binds an optional string parameter
      orNull(x) == IF x \in {Undefined, SqlNull, ""} THEN SqlNull ELSE x
  IN {r \in table : r.did # did} \cup {ProfileRow(did, orNull(avatarCid), orNull(bannerCid))}

\* hydratePost stores the post, then processes the blobs of its embeds.
InsertPost(h) ==
  /\ UNCHANGED utilVars
  /\ BagIn(h, handlers)
  /\ h.pc = "insertPost"
  /\ postsTable' =   \* PostsRepository.insert: ON CONFLICT (uri) DO UPDATE
       LET row == PostRow(h.task.identifier, h.embeds)
       IN {r \in postsTable : r.uri # row.uri} \cup {row}
  /\ StartBlobs(h, [h EXCEPT !.dbWrites = @ + 1],
                IF Len(h.embeds) = 0 THEN <<>>
                ELSE <<BlobCall(h.task.identifier, ExtractBlobReferences(h.embeds))>>)
  /\ UNCHANGED <<queue, processing, processingTask, queueTimers, executions, accepted,
                 order>>
  /\ UNCHANGED <<hydrateBlobs, profilesTable, blobsTable, blobFiles, fetches,
                 lastBlobWrite, checkedAbsent>>
  /\ UNCHANGED <<connVars, ingestVars, envVars>>

\* The processBlobs call hydrateProfile makes for an avatar or a banner.
ProfileBlobCalls(did, cid, type) ==
  IF cid \notin {Undefined, SqlNull, ""}
  THEN <<BlobCall(ProfileBlobUri(did, type),
                  ExtractBlobReferences(<<Embed(<<Img(cid, "image/jpeg")>>, <<>>, <<>>)>>))>>
  ELSE <<>>

\* hydrateProfile stores the profile, then processes the avatar and the banner.
InsertProfile(h) ==
  /\ UNCHANGED utilVars
  /\ BagIn(h, handlers)
  /\ h.pc = "insertProfile"
  /\ profilesTable' = InsertProfileRow(profilesTable, DidOf(h.task), h.avatarCid,
                                       h.bannerCid)
  /\ StartBlobs(h, [h EXCEPT !.dbWrites = @ + 1],
                ProfileBlobCalls(DidOf(h.task), h.avatarCid, "avatar")
                \o ProfileBlobCalls(DidOf(h.task), h.bannerCid, "banner"))
  /\ UNCHANGED <<queue, processing, processingTask, queueTimers, executions, accepted,
                 order>>
  /\ checkedAbsent' = IF h.foundAbsent THEN checkedAbsent \cup {h.task}
                       ELSE checkedAbsent
  /\ UNCHANGED <<hydrateBlobs, postsTable, blobsTable, blobFiles, fetches, lastBlobWrite>>
  /\ UNCHANGED <<connVars, ingestVars, envVars>>

\* ---- BlobProcessor.processBlob ----
CurrentOwner(h) == Head(h.calls).owner
CurrentRef(h) == Head(Head(h.calls).refs)

\* A reuse branch that copies the sha256 only.
ReuseRowNoPhash(owner, cid, existing) ==
  BlobRow(owner, cid, existing.sha256, <<>>, existing.storage_path, existing.mimetype)

\* The row of the reuse branch: the hashes, the locator and the media type of
\* the existing row under the new owner.
ReuseRow(owner, cid, existing) ==
  BlobRow(owner, cid, existing.sha256, existing.phash, existing.storage_path,
          existing.mimetype)

\* blobsRepo.findByCid(ref.cid) resolves: a row of the identifier is reused,
\* or the blob has to be fetched.
FindByCid(h) ==
  /\ UNCHANGED utilVars
  /\ BagIn(h, handlers)
  /\ h.pc = "findByCid"
  /\ IF FindByCidRows(CurrentRef(h).cid) # {}
     THEN \E existing \in FindByCidRows(CurrentRef(h).cid) :
            Continue(h, [h EXCEPT !.pc = "reuse",
                                  !.row = ReuseRow(CurrentOwner(h), CurrentRef(h).cid,
                                                   existing)])
     ELSE Continue(h, [h EXCEPT !.pc = "resolvePds"])
  /\ UNCHANGED <<queue, processing, processingTask, queueTimers, executions, accepted,
                 order>>
  /\ UNCHANGED <<hydrateBlobs, postsTable, profilesTable, blobsTable, blobFiles, fetches,
                 lastBlobWrite, checkedAbsent>>
  /\ UNCHANGED <<connVars, ingestVars, envVars>>

\* The insert of the reuse branch runs; processBlob returns.
ReuseInsert(h) ==
  /\ UNCHANGED utilVars
  /\ BagIn(h, handlers)
  /\ h.pc = "reuse"
  /\ blobsTable' = InsertBlobRow(blobsTable, h.row)
  /\ lastBlobWrite' = [row |-> h.row, switch |-> hydrateBlobs, fresh |-> FALSE]
  /\ NextRef(h, [h EXCEPT !.dbWrites = @ + 1,
                          !.processed = Append(@, [cid |-> CurrentRef(h).cid,
                                                   stored |-> TRUE])])
  /\ UNCHANGED <<queue, processing, processingTask, queueTimers, executions, accepted,
                 order>>
  /\ UNCHANGED <<hydrateBlobs, postsTable, profilesTable, blobFiles, fetches,
                 checkedAbsent>>
  /\ UNCHANGED <<connVars, ingestVars, envVars>>

\* resolvePds(did) is answered: the endpoint, or null and processBlob returns.
\* The directory has a document with a repository host for the account
\* identifiers only.
ResolvePds(h, ok) ==
  /\ UNCHANGED utilVars
  /\ BagIn(h, handlers)
  /\ h.pc = "resolvePds"
  /\ ok => StartsWithDid(ParseBlobUri(CurrentOwner(h)))
  /\ LET h2 == [h EXCEPT !.resolved = Append(@, ParseBlobUri(CurrentOwner(h)))] IN
     IF ok
     THEN Continue(h, [h2 EXCEPT !.pc = "fetchBlob"])
     ELSE NextRef(h, [h2 EXCEPT !.netFailure =
                        @ \/ StartsWithDid(ParseBlobUri(CurrentOwner(h))),
                        !.processed = Append(@, [cid |-> CurrentRef(h).cid,
                                                 stored |-> FALSE])])
  /\ UNCHANGED <<queue, processing, processingTask, queueTimers, executions, accepted,
                 order>>
  /\ UNCHANGED <<hydrateBlobs, postsTable, profilesTable, blobsTable, blobFiles, fetches,
                 lastBlobWrite, checkedAbsent>>
  /\ UNCHANGED <<connVars, ingestVars, envVars>>

\* A processor that stores every blob it fetches.
FreshStoragePathAlways(cid, mimeType) == StorePath(cid, GetExtensionFromMime(mimeType))

\* storagePath of a fetched blob: the locator storage.store returns when
\* this.storage && config.blobs.hydrateBlobs, else undefined.
FreshStoragePath(cid, mimeType) ==
  IF LET \* the constructor sets this.storage when the switch is on
         storage == hydrateBlobs
     IN storage /\ hydrateBlobs
  THEN StorePath(cid, GetExtensionFromMime(mimeType)) ELSE <<>>

\* fetch(blobUrl) is answered.  With the bytes the blob is stored (when the
\* switch is on) and hashed; a failed request ends processBlob, and
\* processBlobs goes on.
FetchBlob(h, ok) ==
  /\ UNCHANGED utilVars
  /\ BagIn(h, handlers)
  /\ h.pc = "fetchBlob"
  /\ fetches' = IF ok THEN BagAdd(fetches, CurrentRef(h).cid) ELSE fetches
  /\ LET h2 == [h EXCEPT !.blobFetches = @ + 1, !.netFailure = @ \/ ~ok]
         cid == CurrentRef(h).cid
         hashes == ComputeBlobHashes(BlobBytes(cid), CurrentRef(h).mimeType)
         storagePath == FreshStoragePath(cid, CurrentRef(h).mimeType)
     IN IF ok
        THEN /\ blobFiles' = IF storagePath # <<>>
                             THEN StoreFile(blobFiles, cid, BlobBytes(cid),
                                            CurrentRef(h).mimeType)
                             ELSE blobFiles
             /\ Continue(h, [h2 EXCEPT !.pc = "insertBlob",
                                       !.row = BlobRow(CurrentOwner(h), cid, hashes.sha256,
                                                       hashes.phash, storagePath,
                                                       CurrentRef(h).mimeType)])
        ELSE /\ NextRef(h, [h2 EXCEPT !.processed = Append(@, [cid |-> cid,
                                                                  stored |-> FALSE])])
             /\ UNCHANGED blobFiles
  /\ UNCHANGED <<queue, processing, processingTask, queueTimers, executions, accepted,
                 order>>
  /\ UNCHANGED <<hydrateBlobs, postsTable, profilesTable, blobsTable, lastBlobWrite,
                 checkedAbsent>>
  /\ UNCHANGED <<connVars, ingestVars, envVars>>

\* The insert of the fetched blob runs; processBlob returns.
InsertBlob(h) ==
  /\ UNCHANGED utilVars
  /\ BagIn(h, handlers)
  /\ h.pc = "insertBlob"
  /\ blobsTable' = InsertBlobRow(blobsTable, h.row)
  /\ lastBlobWrite' = [row |-> h.row, switch |-> hydrateBlobs, fresh |-> TRUE]
  /\ NextRef(h, [h EXCEPT !.dbWrites = @ + 1,
                          !.processed = Append(@, [cid |-> CurrentRef(h).cid,
                                                   stored |-> TRUE])])
  /\ UNCHANGED <<queue, processing, processingTask, queueTimers, executions, accepted,
                 order>>
  /\ UNCHANGED <<hydrateBlobs, postsTable, profilesTable, blobFiles, fetches,
                 checkedAbsent>>
  /\ UNCHANGED <<connVars, ingestVars, envVars>>

\* processBlob throws: blobsRepo.findByCid or the insert of the reuse branch
\* rejects; storage.store throws on the fetched bytes; or computeBlobHashes or
\* the insert of the fetched blob throws after the bytes were stored.  The
\* catch of processBlobs logs it and the loop goes on.
ProcessBlobThrows(h) ==
  /\ UNCHANGED utilVars
  /\ BagIn(h, handlers)
  /\ h.pc \in {"findByCid", "reuse", "fetchBlob", "insertBlob"}
  /\ h.pc = "fetchBlob" => hydrateBlobs    \* this.storage && hydrateBlobs
  /\ fetches' = IF h.pc = "fetchBlob" THEN BagAdd(fetches, CurrentRef(h).cid)
                ELSE fetches
  /\ NextRef(h, [h EXCEPT !.blobFetches = IF h.pc = "fetchBlob" THEN @ + 1 ELSE @,
                          !.processed = Append(@, [cid |-> CurrentRef(h).cid,
                                                   stored |-> FALSE])])
  /\ UNCHANGED <<queue, processing, processingTask, queueTimers, executions, accepted,
                 order>>
  /\ UNCHANGED <<hydrateBlobs, postsTable, profilesTable, blobsTable, blobFiles,
                 lastBlobWrite, checkedAbsent>>
  /\ UNCHANGED <<connVars, ingestVars, envVars>>

\* ------------------------------------------------------- specifications
InitQueue ==
  /\ queue = <<>>
  /\ processing = FALSE
  /\ processingTask = NoTask
  /\ queueTimers = 0
  /\ running = EmptyBag
  /\ executions = EmptyBag
  /\ accepted = 0
  /\ order = [tickets |-> <<>>, next |-> 1, last |-> 0, cleared |-> 1]

InitSubscriber ==
  /\ phase = "down"
  /\ ws = NoSocket
  /\ sockets = <<>>
  /\ connects = 0
  /\ reconnectAttempts = 0
  /\ shouldReconnect = TRUE
  /\ cursor = CursorNull
  /\ timers = <<>>
  /\ reconnectsSinceOpen = 0
  /\ stopped = FALSE
  /\ connectsAtStop = 0
  /\ writes = <<>>
  /\ inserts = EmptyBag

InitStore ==
  /\ cursorFile = [exists |-> FALSE, data |-> <<>>]
  /\ labelsTable = EmptyBag
  /\ emitted = [i \in 1..MaxSeq |-> {}]
  /\ cursorSaves = {}
  /\ delivered = EmptyBag

\* new RateLimiter(config): the bucket is full; no function has been called.
InitUtil ==
  /\ limiter = [tokens |-> MaxTokens, elapsed |-> 0, callers |-> {}, calls |-> 0,
                last |-> [id |-> 0, n |-> 0]]
  /\ call = [fn |-> "none"]

InitHydration ==
  /\ handlers = EmptyBag
  /\ postsTable = {}
  /\ profilesTable = {}
  /\ blobsTable = {}
  /\ blobFiles = {}
  /\ fetches = EmptyBag
  /\ lastBlobWrite = NoBlobWrite
  /\ lastOutcome = NoOutcome
  /\ checkedAbsent = {}

CaptureLabelsConfigs == {<<>>, <<"spam">>}

\* The hydration queue driven directly by its callers.
InitQ ==
  /\ InitQueue /\ InitSubscriber /\ InitStore /\ InitUtil /\ InitHydration
  /\ hydrateBlobs = FALSE
  /\ log = <<>>
  /\ allowedLabels = NewLabelFilter(<<>>)
  /\ budget = [faults |-> 0, stops |-> 0, frames |-> 0]

NextQ ==
  \/ \E task \in HydrationTasks : Enqueue(task)
  \/ QueueTimerFire
  \/ \E task \in HydrationTasks : HandlerDone(task)
  \/ Clear

SpecQueue == InitQ /\ [][NextQ]_vars

\* The connection life cycle of the subscriber, without frames.
InitConn ==
  /\ InitQueue /\ InitSubscriber /\ InitStore /\ InitUtil /\ InitHydration
  /\ hydrateBlobs = FALSE
  /\ log = <<>>
  /\ allowedLabels = NewLabelFilter(<<>>)
  /\ budget = [faults |-> MaxCloses, stops |-> 1, frames |-> 0]

NextConn ==
  \/ Start
  \/ LoadCursorDone
  \/ \E id \in DOMAIN sockets : Open(id)
  \/ \E id \in DOMAIN sockets : SocketError(id)
  \/ \E id \in DOMAIN sockets : Close(id)
  \/ \E k \in 1..Len(timers) : ReconnectTimerFire(k)
  \/ Stop

SpecConn == InitConn /\ [][NextConn]_vars

\* The whole pipeline: frames, cursor writes, label inserts, the hydration
\* queue, reconnects and kills followed by a restart.
Init ==
  /\ InitQueue /\ InitSubscriber /\ InitStore /\ InitUtil /\ InitHydration
  /\ hydrateBlobs = FALSE
  /\ log = <<>>
  /\ \E captureLabels \in CaptureLabelsConfigs :
       allowedLabels = NewLabelFilter(captureLabels)
  /\ budget = [faults |-> MaxFaults, stops |-> 0, frames |-> MaxMessages]

Next ==
  \/ Start
  \/ LoadCursorDone
  \/ \E id \in DOMAIN sockets : Open(id)
  \/ \E id \in DOMAIN sockets : Message(id)
  \/ \E k \in 1..Len(writes) : WriteOpen(k)
  \/ \E k \in 1..Len(writes) : WriteData(k)
  \/ \E k \in 1..Len(writes) : WriteDone(k)
  \/ \E k \in 1..Len(writes) : WriteFail(k)
  \/ \E label \in Labels : InsertDone(label)
  \/ \E label \in Labels : InsertFail(label)
  \/ \E id \in DOMAIN sockets : Close(id)
  \/ \E k \in 1..Len(timers) : ReconnectTimerFire(k)
  \/ Kill

Spec == Init /\ [][Next]_vars

\* The label handler of index.ts has stored a label and enqueues the task of
\* its uri.
LabelRouted(task) ==
  /\ UNCHANGED utilVars
  /\ budget.frames > 0
  /\ budget' = [budget EXCEPT !.frames = @ - 1]
  /\ EnqueueTask(task)
  /\ UNCHANGED <<accepted, connVars, ingestVars, log, allowedLabels, hydVars>>

\* The hydration services behind the queue: tasks are enqueued, the queue
\* emits them, and the handlers run hydratePost / hydrateProfile and the
\* BlobProcessor against the network and the database, across restarts.
InitHyd ==
  /\ InitQueue /\ InitSubscriber /\ InitStore /\ InitUtil /\ InitHydration
  /\ hydrateBlobs \in BOOLEAN
  /\ log = <<>>
  /\ allowedLabels = NewLabelFilter(<<>>)
  /\ budget = [faults |-> MaxFaults, stops |-> 0, frames |-> MaxMessages]

NextHyd ==
  \/ \E task \in HydrationTasks : LabelRouted(task)
  \/ QueueTimerFire
  \/ \E task \in HydrationTasks : HydrateStart(task)
  \/ \E h \in BagToSet(handlers) : \E reply \in GetRecordReplies(h.task) : GetRecord(h, reply)
  \/ \E h \in BagToSet(handlers) : \E ok \in BOOLEAN : GetProfile(h, ok)
  \/ \E h \in BagToSet(handlers) : InsertPost(h)
  \/ \E h \in BagToSet(handlers) : InsertProfile(h)
  \/ \E h \in BagToSet(handlers) : FindByCid(h)
  \/ \E h \in BagToSet(handlers) : ReuseInsert(h)
  \/ \E h \in BagToSet(handlers) : \E ok \in BOOLEAN : ResolvePds(h, ok)
  \/ \E h \in BagToSet(handlers) : \E ok \in BOOLEAN : FetchBlob(h, ok)
  \/ \E h \in BagToSet(handlers) : InsertBlob(h)
  \/ \E hb \in BOOLEAN : Restart(hb)

SpecHyd == InitHyd /\ [][NextHyd]_vars

\* The same services started on the database an earlier run left: the
\* profile of did:plc:xyz with its avatar and banner, hydrated while the
\* switch was off, and a post without embeds.
SeededBlobs ==
  LET hashes == ComputeBlobHashes(BlobBytes(Cid1), "image/jpeg") IN
  {BlobRow(ProfileBlobUri("did:plc:xyz", type), Cid1, hashes.sha256, hashes.phash, <<>>,
           "image/jpeg") : type \in {"avatar", "banner"}}

InitHydStore ==
  /\ InitQueue /\ InitSubscriber /\ InitStore /\ InitUtil
  /\ handlers = EmptyBag
  /\ \/ postsTable = {} /\ profilesTable = {} /\ blobsTable = {}
     \/ postsTable = {PostRow(PostUri, <<>>)}
        /\ profilesTable = {ProfileRow("did:plc:xyz", Cid1, Cid1)}
        /\ blobsTable = SeededBlobs
  /\ blobFiles = {}
  /\ fetches = EmptyBag
  /\ lastBlobWrite = NoBlobWrite
  /\ lastOutcome = NoOutcome
  /\ checkedAbsent = {}
  /\ hydrateBlobs \in BOOLEAN
  /\ log = <<>>
  /\ allowedLabels = NewLabelFilter(<<>>)
  /\ budget = [faults |-> MaxFaults, stops |-> 0, frames |-> MaxHydrations]

SpecHydStore == InitHydStore /\ [][NextHyd]_vars

\* The services in one run of the process, with every await of processBlob
\* able to fail, on an empty database or on one where an earlier run left
\* the profile of did:plc:xyz and the rows of its avatar and banner.
InitBlobs ==
  /\ InitQueue /\ InitSubscriber /\ InitStore /\ InitUtil
  /\ handlers = EmptyBag
  /\ postsTable = {}
  /\ \/ profilesTable = {} /\ blobsTable = {}
     \/ profilesTable = {ProfileRow("did:plc:xyz", Cid1, Cid1)}
        /\ blobsTable = SeededBlobs
  /\ blobFiles = {}
  /\ fetches = EmptyBag
  /\ lastBlobWrite = NoBlobWrite
  /\ lastOutcome = NoOutcome
  /\ checkedAbsent = {}
  /\ hydrateBlobs \in BOOLEAN
  /\ log = <<>>
  /\ allowedLabels = NewLabelFilter(<<>>)
  /\ budget = [faults |-> 0, stops |-> 0, frames |-> MaxHydrations]

NextBlobs ==
  \/ \E task \in HydrationTasks : LabelRouted(task)
  \/ QueueTimerFire
  \/ \E task \in HydrationTasks : HydrateStart(task)
  \/ \E h \in BagToSet(handlers) : \E reply \in GetRecordReplies(h.task) : GetRecord(h, reply)
  \/ \E h \in BagToSet(handlers) : GetProfile(h, TRUE)
  \/ \E h \in BagToSet(handlers) : InsertPost(h)
  \/ \E h \in BagToSet(handlers) : InsertProfile(h)
  \/ \E h \in BagToSet(handlers) : FindByCid(h)
  \/ \E h \in BagToSet(handlers) : ReuseInsert(h)
  \/ \E h \in BagToSet(handlers) : \E ok \in BOOLEAN : ResolvePds(h, ok)
  \/ \E h \in BagToSet(handlers) : \E ok \in BOOLEAN : FetchBlob(h, ok)
  \/ \E h \in BagToSet(handlers) : InsertBlob(h)
  \/ \E h \in BagToSet(handlers) : ProcessBlobThrows(h)

SpecBlobs == InitBlobs /\ [][NextBlobs]_vars

\* HandlerFail as it would be if the rejection reached the dispatcher and the
\* pending setTimeout of processNext were lost with it.
HandlerFailHalts(task) ==
  /\ UNCHANGED utilVars
  /\ BagIn(task, running)
  /\ running' = BagRemove(running, task)
  /\ queueTimers' = 0
  /\ lastOutcome' = [NoOutcome EXCEPT !.task = task, !.raised = TRUE]
  /\ UNCHANGED <<queue, processing, processingTask, executions, accepted,
                 order>>
  /\ UNCHANGED <<connVars, ingestVars, envVars>>
  /\ UNCHANGED <<handlers, hydrateBlobs, postsTable, profilesTable, blobsTable,
                 blobFiles, fetches, lastBlobWrite, checkedAbsent>>

\* hydratePost / hydrateProfile rejects inside the "task" handler of index.ts:
\* the catch logs "Hydration task failed" and the handler returns.
HandlerFail(task) ==
  /\ UNCHANGED utilVars
  /\ BagIn(task, running)
  /\ running' = BagRemove(running, task)
  /\ lastOutcome' = [NoOutcome EXCEPT !.task = task, !.raised = TRUE]
  /\ UNCHANGED <<queue, processing, processingTask, queueTimers, executions, accepted,
                 order>>
  /\ UNCHANGED <<connVars, ingestVars, envVars>>
  /\ UNCHANGED <<handlers, hydrateBlobs, postsTable, profilesTable, blobsTable,
                 blobFiles, fetches, lastBlobWrite, checkedAbsent>>

\* The hydration queue with handlers that return or fail.  A pending
\* setTimeout callback of processNext fires after its 100 ms.
NextQFail ==
  \/ \E task \in HydrationTasks : Enqueue(task)
  \/ QueueTimerFire
  \/ \E task \in HydrationTasks : HandlerDone(task)
  \/ \E task \in HydrationTasks : HandlerFail(task)

SpecQueueFair == InitQ /\ [][NextQFail]_vars /\ WF_vars(QueueTimerFire)

\* The label handler of index.ts driven by the labels the subscriber emits,
\* over the shapes of uri a label can carry: a record, an account as a bare
\* DID or as at://<did>, a collection, a path below a record, a web address.
RouteLabelOf(uri) == Label("did:plc:labeler", uri, "spam", "2025-01-15T12:00:00Z", FALSE)

RouteLabels ==
  LET RouteUris ==
      {PostUri, DidUri, AtUri(<<"did:plc:xyz">>),
       AtUri(<<"did:plc:user", "app.bsky.feed.post">>),
       AtUri(<<"did:plc:user", "app.bsky.feed.post", "abc", "extra">>),
       BareUri("https://example.com")}
  IN {RouteLabelOf(uri) : uri \in RouteUris}


InitRoute ==
  /\ InitQueue /\ InitSubscriber /\ InitStore /\ InitUtil /\ InitHydration
  /\ hydrateBlobs = FALSE
  /\ log = <<>>
  /\ allowedLabels = NewLabelFilter(<<>>)
  /\ budget = [faults |-> 0, stops |-> 0, frames |-> MaxMessages]

\* LabelInputs: labels with every combination of src, uri, val and cts
\* present or missing.
NextRoute ==
  LET LabelInputs ==
        {Label(src, uri, val, cts, FALSE) :
           src \in {"", "did:plc:labeler"}, uri \in {NoUri, PostUri},
           val \in {"", "spam"}, cts \in {"", "2025-01-15T12:00:00Z"}}
  IN \/ \E label \in RouteLabels : LabelCaptured(label)
     \/ \E label \in LabelInputs : LabelReceived(label)
     \/ \E label \in RouteLabels \cup LabelInputs : InsertDone(label)
     \/ \E label \in RouteLabels \cup LabelInputs : InsertFail(label)
     \/ QueueTimerFire
     \/ \E task \in HydrationTasks : HandlerDone(task)

SpecRoute == InitRoute /\ [][NextRoute]_vars

\* The label path of the pipeline: frames, the label handler and the labels
\* table, under reconnects and kills.  The cursor writes stay in flight, so
\* every connection replays the log from its start.
NextStore ==
  \/ Start
  \/ LoadCursorDone
  \/ \E id \in DOMAIN sockets : Open(id)
  \/ \E id \in DOMAIN sockets : Message(id)
  \/ \E label \in Labels : InsertDone(label)
  \/ \E label \in Labels : InsertFail(label)
  \/ \E id \in DOMAIN sockets : Close(id)
  \/ \E k \in 1..Len(timers) : ReconnectTimerFire(k)
  \/ Kill

SpecStore == Init /\ [][NextStore]_vars

\* The connector with frames and cursor writes, under socket errors, closes
\* and stop().  The label handlers stay at their await.  A timer that was set
\* fires in the end.
InitReconnect ==
  /\ InitQueue /\ InitSubscriber /\ InitStore /\ InitUtil /\ InitHydration
  /\ hydrateBlobs = FALSE
  /\ log = <<>>
  /\ \E captureLabels \in CaptureLabelsConfigs :
       allowedLabels = NewLabelFilter(captureLabels)
  /\ budget = [faults |-> MaxFaults, stops |-> 1, frames |-> 2]

NextReconnect ==
  \/ Start
  \/ LoadCursorDone
  \/ \E id \in DOMAIN sockets : Open(id)
  \/ \E id \in DOMAIN sockets : Message(id)
  \/ \E k \in 1..Len(writes) : WriteOpen(k)
  \/ \E k \in 1..Len(writes) : WriteData(k)
  \/ \E k \in 1..Len(writes) : WriteDone(k)
  \/ \E k \in 1..Len(writes) : WriteFail(k)
  \/ \E id \in DOMAIN sockets : SocketError(id)
  \/ \E id \in DOMAIN sockets : Close(id)
  \/ \E k \in 1..Len(timers) : ReconnectTimerFire(k)
  \/ Stop

SpecReconnectFair ==
  /\ InitReconnect /\ [][NextReconnect]_vars
  /\ WF_vars(\E k \in 1..Len(timers) : ReconnectTimerFire(k))

\* ----------------------------------------------------------------- claims
QueuedCopies(task) == Cardinality({k \in 1..Len(queue) : queue[k] = task})

\* C1: at any time at most one task with a given (type, identifier) is queued
\* or in flight, i.e. queued or with its "task" handler started and not yet
\* finished.
C1_AtMostOneQueuedOrInFlight ==
  \A task \in HydrationTasks : QueuedCopies(task) + CopiesIn(task, running) <= 1

\* C2: no two hydration handlers run at the same time.
C2_OneHandlerAtATime == BagCardinality(running) <= 1

\* The number of rows of the labels table with the triple t.
RowsWith(table, t) ==
  LET rows == {row \in BagToSet(table) : Triple(row) = t} IN
  BagCardinality([row \in rows |-> table[row]])

Triples == {Triple(label) : label \in Labels}

\* C3: a triple whose insert ran once or more, without error, has exactly one
\* row in the labels table, and no triple ever has two.
C3_OneRowPerTriple ==
  \A t \in Triples :
    /\ RowsWith(labelsTable, t) <= 1
    /\ CopiesIn(t, delivered) >= 1 => RowsWith(labelsTable, t) = 1

\* C3 witness: a triple was delivered twice and has one row.
C3_Witness ==
  \E t \in Triples : CopiesIn(t, delivered) >= 2 /\ RowsWith(labelsTable, t) = 1

\* A frame that carries label events.
CarriesLabels(frame) == frame.decodes /\ frame.op = 1 /\ frame.t = "#labels"

\* C4: every valid, filter-accepted label event of a frame whose sequence
\* number is at most the cursor committed in cursor.txt is in the labels table.
C4_NoLossBelowCursor ==
  LET committed == LoadedCursor(cursorFile) IN
  committed.kind = "num" =>
    \A i \in 1..Len(log) :
      (SeqOf(i) <= committed.n /\ CarriesLabels(log[i])) =>
        \A k \in 1..Len(log[i].labels) :
          LET label == log[i].labels[k] IN
          (ValidateLabel(label) /\ ShouldCapture(allowedLabels, label)) =>
            \E row \in BagToSet(labelsTable) : Triple(row) = Triple(label)

\* C5: when saveCursor has been called for a frame, every label event the
\* frame carries has been emitted as "label".
C5_CursorAfterAllLabels ==
  \A i \in cursorSaves :
    \A k \in 1..Len(log[i].labels) : log[i].labels[k] \in emitted[i]

\* C6: neither this.cursor nor the number in cursor.txt steps from a larger
\* sequence number to a smaller one.
C6_CursorMonotone ==
  [][/\ (cursor.kind = "num" /\ cursor'.kind = "num") => cursor'.n >= cursor.n
     /\ (LoadedCursor(cursorFile).kind = "num" /\ LoadedCursor(cursorFile').kind = "num")
          => LoadedCursor(cursorFile').n >= LoadedCursor(cursorFile).n]_vars

\* C7: after a restart this.cursor, as loadCursor left it, is never the result
\* of reading an empty or partial file: it is null (no file) or a sequence
\* number that was saved.
C7_CursorNeverCorrupt ==
  /\ cursor.kind # "nan"
  /\ cursor.kind = "num" => \E i \in 1..Len(log) : cursor.n = SeqOf(i)

\* C8: once stop() has been called no WebSocket is constructed.
C8_NoConnectAfterStop == stopped => connects = connectsAtStop

\* C8 witness: stop() was called after a reconnect, the close event of the
\* socket it closed has been handled and no timer is left.
C8_Witness ==
  /\ stopped
  /\ connects >= 2
  /\ DOMAIN sockets = {}
  /\ timers = <<>>

LiveSockets == {id \in DOMAIN sockets : Live(id)}

\* C10: at most one socket is connecting or open, at most one reconnect timer
\* is pending, and never both.
C10_SingleConnection == Cardinality(LiveSockets) + Len(timers) <= 1

\* C10 witness: a socket opened by a reconnect is live.
C10_Witness ==
  /\ connects >= 2
  /\ Cardinality(LiveSockets) = 1

\* C11: every blob record the processor writes has a sha256; its storage_path
\* is NULL if the download switch is off and populated if the switch is on.
C11_DownloadSwitch ==
  lastBlobWrite # NoBlobWrite =>
    /\ lastBlobWrite.row.sha256 # <<>>
    /\ lastBlobWrite.switch <=> lastBlobWrite.row.storage_path # <<>>

\* C11 as amended: every blob record the processor writes has a sha256; a
\* record written from freshly fetched bytes has a NULL storage_path if the
\* switch is off and a populated one if it is on; a record of the reuse
\* branch carries the locator of the existing record, which is NULL or the
\* locator of a stored object, whatever the switch is now.
C11_DownloadSwitchFresh ==
  lastBlobWrite # NoBlobWrite =>
    /\ lastBlobWrite.row.sha256 # <<>>
    /\ lastBlobWrite.fresh =>
         (lastBlobWrite.switch <=> lastBlobWrite.row.storage_path # <<>>)
    /\ lastBlobWrite.row.storage_path # <<>> =>
         \E f \in blobFiles : f.path = lastBlobWrite.row.storage_path

\* C11 witness: a freshly fetched blob was written with the switch on.
C11_Witness ==
  /\ lastBlobWrite.fresh
  /\ lastBlobWrite.switch
  /\ lastBlobWrite.row.storage_path = StorePath(Cid1, ".jpg")
  /\ lastBlobWrite.row \in blobsTable

OwnersOf(cid) == {r.post_uri : r \in FindByCidRows(cid)}

\* C12: when the blob records of two different owners of one content
\* identifier exist, the bytes of the identifier were fetched once, whatever
\* the order in which the dispatcher let the two hydrations run.
C12_FetchedOnce ==
  \A cid \in {Cid1, Cid2} :
    Cardinality(OwnersOf(cid)) >= 2 => CopiesIn(cid, fetches) <= 1

\* C13: any two rows of the blobs table with the same blob_cid carry the same
\* sha256 and the same phash.
C13_SameCidSameFingerprints ==
  \A r1, r2 \in blobsTable :
    r1.blob_cid = r2.blob_cid => r1.sha256 = r2.sha256 /\ r1.phash = r2.phash

\* C13 witness: the reuse branch has written the row of a second owner of an
\* identifier, and both rows carry a phash.
C13_Witness ==
  /\ lastBlobWrite # NoBlobWrite
  /\ ~lastBlobWrite.fresh
  /\ lastBlobWrite.row \in blobsTable
  /\ lastBlobWrite.row.phash # <<>>
  /\ Cardinality(OwnersOf(lastBlobWrite.row.blob_cid)) >= 2

\* C14: a hydratePost whose record embeds two images with the same content
\* identifier, and whose requests the network all answered, has fetched the
\* blob exactly once.
C14_TwoSameOneFetch ==
  (lastOutcome.twoSame /\ ~lastOutcome.netFailure /\ ~lastOutcome.raised) =>
    lastOutcome.blobFetches = 1

\* C15: once a hydrateProfile has stored a profile whose avatar or banner it
\* found absent, no later hydrateProfile of that did fetches anything.
C15_NoRefetchAfterChecked ==
  /\ \A h \in BagToSet(handlers) : ~h.afterChecked
  /\ lastOutcome.afterChecked => lastOutcome.gets = 0

\* C16: a hydration whose record fetch is answered "not found" makes no
\* further attempt, returns without raising and writes no record.
C16_NotFoundSkipped ==
  /\ \A h \in BagToSet(handlers) : ~h.notFound
  /\ lastOutcome.notFound =>
       /\ ~lastOutcome.raised
       /\ lastOutcome.dbWrites = 0
       /\ lastOutcome.blobFetches = 0

\* C17: a hydration that starts when a complete record of its subject is
\* stored (a post row, or a profile row with avatar_cid and banner_cid)
\* returns at once: no request, no database write, no exception.
C17_CompleteSkips ==
  /\ \A h \in BagToSet(handlers) : ~h.complete
  /\ lastOutcome.complete =>
       /\ lastOutcome.gets = 0
       /\ lastOutcome.blobFetches = 0
       /\ lastOutcome.dbWrites = 0
       /\ ~lastOutcome.raised

\* C17 witness: a hydrateProfile found the complete profile and returned.
C17_Witness ==
  /\ lastOutcome.complete
  /\ lastOutcome.task.type = "profile"
  /\ handlers = EmptyBag

\* The path-less forms of an account identifier: a bare DID, or at://<did>.
BareAccount(uri) == Len(uri.segs) = 1 /\ StartsWithDid(uri.segs[1])

\* The tasks the claim expects for a uri.
ExpectedTasks(uri) ==
  IF uri.at /\ Len(uri.segs) = 3 THEN {Task("post", uri)}
  ELSE IF BareAccount(uri) THEN {Task("profile", BareUri(uri.segs[1]))}
  ELSE {}

\* The copies of a task that queue q holds or that were emitted, per ex.
Held(q, ex, task) ==
  Cardinality({k \in 1..Len(q) : q[k] = task}) + CopiesIn(task, ex)

SeqRange(q) == {q[k] : k \in 1..Len(q)}

C19_UndecodableFrameDropped ==
  /\ [][\A id \in DOMAIN sockets :
          (/\ id \in DOMAIN sockets'
           /\ sockets'[id].pos = sockets[id].pos + 1
           /\ ~log'[sockets[id].pos].decodes) =>
            /\ sockets' = [sockets EXCEPT ![id].pos = @ + 1]
            /\ sockets'[id].state = "open"
            /\ emitted' = emitted
            /\ inserts' = inserts
            /\ cursor' = cursor
            /\ cursorFile' = cursorFile
            /\ writes' = writes
            /\ cursorSaves' = cursorSaves
            /\ ws' = ws
            /\ timers' = timers
            /\ reconnectAttempts' = reconnectAttempts
            /\ phase' = phase]_vars
  /\ [](\A id \in DOMAIN sockets :
          \A j \in 2..(sockets[id].pos - 1) :
            ~log[j - 1].decodes =>
              LET out == EmittedFor(log[j], allowedLabels) IN
              \A k \in 1..Len(out) : out[k] \in emitted[j])

\* C19 witness: a connection consumed an undecodable frame and then a frame
\* with a label; the label was emitted and the connection is open.
C19_Witness ==
  /\ log = <<Frame(FALSE, 0, "", <<>>), LabelsFrame(<<LabelSpam>>)>>
  /\ emitted[1] = {}
  /\ emitted[2] = {LabelSpam}
  /\ timers = <<>>
  /\ \E id \in DOMAIN sockets : sockets[id].state = "open" /\ sockets[id].pos = 3

\* C20: once the handler of a task has failed, every task in the queue is
\* still emitted later (the count of its emissions grows), whether it was
\* queued behind the failing task or enqueued after the failure.
C20_FailureDoesNotHalt ==
  \A task \in HydrationTasks : \A n \in 0..MaxEnqueues :
    (lastOutcome.raised /\ InQueue(task) /\ CopiesIn(task, executions) = n)
      ~> (CopiesIn(task, executions) > n)

\* C20 witness: the handler of the post task failed, and the profile task
\* queued behind it has been emitted and is the one being processed.
C20_Witness ==
  /\ lastOutcome.raised
  /\ lastOutcome.task = Task("post", PostUri)
  /\ ~BagIn(Task("post", PostUri), running)
  /\ BeingProcessed(Task("profile", DidUri))
  /\ BagIn(Task("profile", DidUri), running)
  /\ queue = <<>>

\* ------------------------------------------- RateLimiter (utils/rate-limit.ts)
\* refill as it would be without the cap of maxTokens.
RefillUncapped(l) ==
  LET intervals == l.elapsed \div RefillInterval IN
  IF intervals > 0
  THEN [l EXCEPT !.tokens = @ + intervals * RefillRate, !.elapsed = 0]
  ELSE l

\* refill(): whole intervals elapsed since lastRefill add refillRate tokens
\* each, up to maxTokens, and lastRefill becomes now.
Refill(l) ==
  LET intervals == l.elapsed \div RefillInterval IN
  IF intervals > 0
  THEN [l EXCEPT !.tokens = Min(MaxTokens, @ + intervals * RefillRate), !.elapsed = 0]
  ELSE l

\* One pass of the loop of acquire(tokens) for caller c: refill, then take the
\* tokens and return, or sleep for refillInterval.
AcquirePass(c) ==
  LET l == Refill(limiter) IN
  IF l.tokens >= c.n
  THEN [l EXCEPT !.tokens = @ - c.n, !.callers = @ \ {c},
                 !.last = [id |-> c.id, n |-> c.n]]
  ELSE [l EXCEPT !.callers = (@ \ {c}) \cup {[c EXCEPT !.sleep = RefillInterval]}]

\* acquire(n) is called: the first pass of its loop runs at once.
AcquireCall(n) ==
  /\ limiter.calls < MaxAcquires
  /\ limiter' = [AcquirePass([id |-> limiter.calls + 1, n |-> n, sleep |-> 0])
                   EXCEPT !.calls = @ + 1]
  /\ UNCHANGED call
  /\ UNCHANGED <<queueVars, connVars, ingestVars, envVars>>
  /\ UNCHANGED hydVars

\* The setTimeout of a waiting caller has fired: the next pass of its loop.
AcquireLoop(id) ==
  /\ \E c \in limiter.callers :
       /\ c.id = id
       /\ c.sleep = 0
       /\ limiter' = AcquirePass(c)
  /\ UNCHANGED call
  /\ UNCHANGED <<queueVars, connVars, ingestVars, envVars>>
  /\ UNCHANGED hydVars

\* The clock advances by one tick.  Beyond the time that fills the bucket
\* the elapsed time makes no difference and is not counted.
Tick ==
  /\ limiter' = [limiter EXCEPT
       !.elapsed = Min(@ + 1, RefillInterval * MaxTokens),
       !.callers = {[c EXCEPT !.sleep = IF @ > 0 THEN @ - 1 ELSE 0] : c \in @}]
  /\ UNCHANGED call
  /\ UNCHANGED <<queueVars, connVars, ingestVars, envVars>>
  /\ UNCHANGED hydVars

\* getAvailableTokens(): refill, then the tokens.
GetAvailableTokens ==
  /\ limiter' = Refill(limiter)
  /\ call' = [fn |-> "getAvailableTokens", out |-> Refill(limiter).tokens]
  /\ UNCHANGED <<queueVars, connVars, ingestVars, envVars>>
  /\ UNCHANGED hydVars

\* reset(): the bucket is full and lastRefill is now.
Reset ==
  /\ limiter' = [limiter EXCEPT !.tokens = MaxTokens, !.elapsed = 0]
  /\ call' = [fn |-> "reset"]
  /\ UNCHANGED <<queueVars, connVars, ingestVars, envVars>>
  /\ UNCHANGED hydVars

NextLimiter ==
  \/ \E n \in 1..(MaxTokens + 1) : AcquireCall(n)
  \/ \E id \in 1..MaxAcquires : AcquireLoop(id)
  \/ Tick
  \/ GetAvailableTokens
  \/ Reset

\* Time passes and a timer that is due fires.
SpecLimiterFair ==
  /\ InitQ /\ [][NextLimiter]_vars
  /\ WF_vars(Tick)
  /\ \A id \in 1..MaxAcquires : WF_vars(AcquireLoop(id))

\* ------------------------------------------- functions called directly
\* The largest maxAttempts and the number of outcomes of fn that are drawn.
MaxRetryAttempts == 3

\* withRetry as it would be if it retried whatever the failure is.
WithRetryAnyFailure(fn, config) ==
  LET RECURSIVE Loop(_, _, _, _, _)
      Loop(attempt, delay, lastError, calls, slept) ==
        IF ~(attempt <= config.maxAttempts)
        THEN [threw |-> TRUE, attempts |-> config.maxAttempts, lastError |-> lastError,
              calls |-> calls, slept |-> slept]
        ELSE IF fn[attempt] = "ok"
        THEN [threw |-> FALSE, value |-> [at |-> attempt],
              calls |-> calls + 1, slept |-> slept]
        ELSE IF attempt >= config.maxAttempts
        THEN [threw |-> TRUE, attempts |-> attempt,
              lastError |-> [kind |-> fn[attempt], at |-> attempt],
              calls |-> calls + 1, slept |-> slept]
        ELSE Loop(attempt + 1,
                  IF delay * config.backoffMultiplier <= config.maxDelay
                  THEN delay * config.backoffMultiplier ELSE config.maxDelay,
                  [kind |-> fn[attempt], at |-> attempt],
                  calls + 1, Append(slept, delay))
  IN Loop(1, config.initialDelay, Undefined, 0, <<>>)

\* withRetry(fn, config).  fn is given by the outcomes of its successive
\* invocations ("ok", or the kind of the failure); the value or the error of
\* invocation i is identified by i.  The result tells whether RetryError was
\* thrown, its attempts and lastError or the value returned, and, as history,
\* the number of invocations of fn made and the delays slept.
WithRetry(fn, config) ==
  LET RECURSIVE Loop(_, _, _, _, _)
      Loop(attempt, delay, lastError, calls, slept) ==
        IF ~(attempt <= config.maxAttempts)
        THEN [threw |-> TRUE, attempts |-> config.maxAttempts, lastError |-> lastError,
              calls |-> calls, slept |-> slept]
        ELSE IF fn[attempt] = "ok"
        THEN [threw |-> FALSE, value |-> [at |-> attempt],
              calls |-> calls + 1, slept |-> slept]
        ELSE IF ~IsRetryable(fn[attempt]) \/ attempt >= config.maxAttempts
        THEN [threw |-> TRUE, attempts |-> attempt,
              lastError |-> [kind |-> fn[attempt], at |-> attempt],
              calls |-> calls + 1, slept |-> slept]
        ELSE Loop(attempt + 1,
                  IF delay * config.backoffMultiplier <= config.maxDelay
                  THEN delay * config.backoffMultiplier ELSE config.maxDelay,
                  [kind |-> fn[attempt], at |-> attempt],
                  calls + 1, Append(slept, delay))
  IN Loop(1, config.initialDelay, Undefined, 0, <<>>)

\* A caller awaits withRetry(fn, config); the delays are in ticks.
WithRetryCall(fn, maxAttempts, initialDelay, maxDelay, backoffMultiplier) ==
  /\ LET config == [maxAttempts |-> maxAttempts, initialDelay |-> initialDelay,
                    maxDelay |-> maxDelay, backoffMultiplier |-> backoffMultiplier]
     IN call' = [fn |-> "withRetry", in |-> [fn |-> fn, config |-> config],
                 out |-> WithRetry(fn, config)]
  /\ UNCHANGED limiter
  /\ UNCHANGED <<queueVars, connVars, ingestVars, envVars>>
  /\ UNCHANGED hydVars

\* A caller asks labelFilter.shouldCapture(label).
ShouldCaptureCall(label) ==
  /\ call' = [fn |-> "shouldCapture", in |-> label,
              out |-> ShouldCapture(allowedLabels, label)]
  /\ UNCHANGED limiter
  /\ UNCHANGED <<queueVars, connVars, ingestVars, envVars>>
  /\ UNCHANGED hydVars

\* A caller asks extractLabelsFromMessage(message): the message is null or an
\* object whose labels property is absent, the array items, or something else.
ExtractLabelsCall(kind, labelsKind, items) ==
  /\ LET message == [kind |-> kind, labels |-> [kind |-> labelsKind, items |-> items]]
     IN call' = [fn |-> "extractLabelsFromMessage", in |-> message,
                 out |-> ExtractLabelsFromMessage(message)]
  /\ UNCHANGED limiter
  /\ UNCHANGED <<queueVars, connVars, ingestVars, envVars>>
  /\ UNCHANGED hydVars

\* A caller asks extractBlobReferences(embedsJson); embedsJson is null, an
\* array of embeds, or a value of another type.
ExtractBlobReferencesCall(kind, embeds) ==
  /\ call' = [fn |-> "extractBlobReferences", in |-> [kind |-> kind, embeds |-> embeds],
              out |-> IF kind # "array" THEN <<>> ELSE ExtractBlobReferences(embeds)]
  /\ UNCHANGED limiter
  /\ UNCHANGED <<queueVars, connVars, ingestVars, envVars>>
  /\ UNCHANGED hydVars

\* A caller awaits computeBlobHashes(buffer, mimetype).
ComputeBlobHashesCall(bytes, mimetype) ==
  /\ call' = [fn |-> "computeBlobHashes", in |-> [bytes |-> bytes, mimetype |-> mimetype],
              out |-> ComputeBlobHashes(bytes, mimetype)]
  /\ UNCHANGED limiter
  /\ UNCHANGED <<queueVars, connVars, ingestVars, envVars>>
  /\ UNCHANGED hydVars

\* The functions of the utilities, the decoder, the filter, the hasher and
\* the blob processor, called directly with arguments from small sets.
NextUtil ==
  \/ \E bytes \in {<<>>, BlobBytes(Cid1), BlobBytes(Cid2)},
        mimetype \in {Undefined, "image/jpeg", "image/png", "image/svg+xml", "video/mp4",
                      "text/svg", "application/image/png"} :
       ComputeBlobHashesCall(bytes, mimetype)
  \/ \E label \in Labels : ShouldCaptureCall(label)
  \/ \E kind \in {"null", "object"}, labelsKind \in {"absent", "array", "other"},
        items \in {<<>>, <<LabelSpam>>, <<LabelPorn, LabelSpam>>,
                   <<LabelSpam, LabelNoSrc, LabelPorn>>} :
       ExtractLabelsCall(kind, labelsKind, items)
  \/ \E kind \in {"null", "array", "other"},
        embeds \in PostEmbeds \cup
          {<<Embed(<<Img("", "image/png"), Img(Cid2, "image/png")>>,
                   <<Img(Cid1, "image/jpeg"), Img("", "image/jpeg")>>,
                   <<Img(Cid2, "video/mp4")>>),
             Embed(<<>>, <<>>, <<Img("", "video/mp4")>>),
             Embed(<<Img(Cid1, "image/jpeg")>>, <<>>, <<Img(Cid1, "video/mp4")>>)>>} :
       ExtractBlobReferencesCall(kind, embeds)
  \/ \E maxAttempts \in 0..MaxRetryAttempts :
       \E fn \in [1..maxAttempts -> {"ok", "transient", "notFound"}],
          initialDelay \in {2, 5}, maxDelay \in {3}, backoffMultiplier \in {1, 2} :
         WithRetryCall(fn, maxAttempts, initialDelay, maxDelay, backoffMultiplier)

SpecUtil == Init /\ [][NextUtil]_vars

\* ---- LocalBlobStorage called directly ----
\* The number of files the storage directory holds at most.
MaxFiles == 2

\* A caller awaits storage.store(cid, data, mimeType), which returns the path.
StoreCall(cid, data, mimeType) ==
  /\ Cardinality(StoreFile(blobFiles, cid, data, mimeType)) <= MaxFiles
  /\ blobFiles' = StoreFile(blobFiles, cid, data, mimeType)
  /\ call' = [fn |-> "store", in |-> [cid |-> cid, data |-> data, mimeType |-> mimeType],
              out |-> StorePath(cid, GetExtensionFromMime(mimeType))]
  /\ UNCHANGED limiter
  /\ UNCHANGED <<handlers, hydrateBlobs, postsTable, profilesTable, blobsTable, fetches,
                 lastBlobWrite, lastOutcome, checkedAbsent>>
  /\ UNCHANGED <<queueVars, connVars, ingestVars, envVars>>

\* A caller awaits storage.retrieve(cid).  History: after is the store call
\* this call follows at once, if it does.
RetrieveCall(cid) ==
  /\ call' = [fn |-> "retrieve", in |-> cid, out |-> Retrieve(blobFiles, cid),
              after |-> IF call.fn = "store" THEN call.in
                        ELSE [cid |-> "", data |-> <<>>, mimeType |-> Undefined]]
  /\ UNCHANGED limiter
  /\ UNCHANGED <<queueVars, connVars, ingestVars, envVars>>
  /\ UNCHANGED hydVars

NextStorage ==
  \/ \E cid \in {Cid1, Cid2}, data \in {BlobBytes(Cid1), BlobBytes(Cid2)},
        mimeType \in {Undefined, "image/jpeg", "IMAGE/PNG", "image/gif", "video/mp4",
                      "text/plain"} :
       StoreCall(cid, data, mimeType)
  \/ \E cid \in {Cid1, Cid2} : RetrieveCall(cid)

SpecStorage == InitQ /\ [][NextStorage]_vars

\* C23: withRetry invokes fn at most maxAttempts times; it returns the value
\* of the first successful invocation and invokes fn no more; otherwise it
\* throws RetryError at the first failure that is not retryable or is the
\* failure of attempt maxAttempts, with attempts the number of invocations
\* made and lastError the failure of the last one.
C23_WithRetry ==
  call.fn = "withRetry" =>
    LET fn == call.in.fn
        maxAttempts == call.in.config.maxAttempts
        out == call.out
    IN /\ out.calls <= maxAttempts
       /\ \A i \in 1..(out.calls - 1) : fn[i] # "ok" /\ IsRetryable(fn[i])
       /\ ~out.threw => /\ out.calls >= 1
                        /\ fn[out.calls] = "ok"
                        /\ out.value = [at |-> out.calls]
       /\ out.threw => /\ out.attempts = out.calls
                       /\ out.calls = 0 => maxAttempts = 0
                       /\ out.calls >= 1 =>
                            /\ fn[out.calls] # "ok"
                            /\ ~IsRetryable(fn[out.calls]) \/ out.calls = maxAttempts
                            /\ out.lastError = [kind |-> fn[out.calls], at |-> out.calls]

\* C23 witness: with maxAttempts 3, a retryable failure was followed by one
\* that is not, and RetryError reports 2 attempts and the second failure.
C23_Witness ==
  /\ call.fn = "withRetry"
  /\ call.in.config.maxAttempts = 3
  /\ call.in.fn = <<"transient", "notFound", "ok">>
  /\ call.out.threw
  /\ call.out.attempts = 2
  /\ call.out.lastError = [kind |-> "notFound", at |-> 2]

StoredCount(processed) == Len(SelectSeq(processed, LAMBDA p : p.stored))

CidsOf(refs) == [k \in 1..Len(refs) |-> refs[k].cid]

InProcessBlobs(h) ==
  /\ h.task.type = "post"
  /\ h.pc \in {"findByCid", "reuse", "resolvePds", "fetchBlob", "insertBlob"}

\* C24: while hydratePost is in processBlobs, the references processed so far
\* and those still to come are together the references of the embeds, in
\* order, whatever failed, and only the references that did not fail made a
\* write; every step of it leaves the posts table as it was; when it ends,
\* hydratePost returns without raising and every reference was processed;
\* and every reference that did not fail has its row.
C24_BlobFailureIsolated ==
  /\ [](\A h \in BagToSet(handlers) :
          InProcessBlobs(h) =>
            /\ CidsOf(h.processed) \o CidsOf(Head(h.calls).refs)
                 = CidsOf(ExtractBlobReferences(h.embeds))
            /\ h.dbWrites = 1 + StoredCount(h.processed)
            /\ \A k \in 1..Len(h.processed) :
                 h.processed[k].stored =>
                   \E r \in blobsTable : /\ r.post_uri = h.task.identifier
                                          /\ r.blob_cid = h.processed[k].cid)
  /\ [][\A h \in BagToSet(handlers) :
          (InProcessBlobs(h) /\ CopiesIn(h, handlers') < CopiesIn(h, handlers)) =>
            /\ postsTable' = postsTable
            /\ BagCardinality(handlers') < BagCardinality(handlers) =>
                 /\ lastOutcome'.task = h.task
                 /\ ~lastOutcome'.raised
                 /\ CidsOf(lastOutcome'.processed)
                      = CidsOf(ExtractBlobReferences(h.embeds))
                 /\ lastOutcome'.dbWrites = 1 + StoredCount(lastOutcome'.processed)
                 /\ \A k \in 1..Len(lastOutcome'.processed) :
                      lastOutcome'.processed[k].stored =>
                        \E r \in blobsTable' :
                          /\ r.post_uri = h.task.identifier
                          /\ r.blob_cid = lastOutcome'.processed[k].cid]_vars

\* C24 witness: of the two references of a post the first failed and the
\* second was stored; the hydration returned normally.
C24_Witness ==
  /\ lastOutcome.task = Task("post", PostUri)
  /\ ~lastOutcome.raised
  /\ lastOutcome.processed = <<[cid |-> Cid1, stored |-> FALSE],
                               [cid |-> Cid1, stored |-> TRUE]>>
  /\ lastOutcome.dbWrites = 2
  /\ \E r \in blobsTable : r.post_uri = PostUri /\ r.blob_cid = Cid1
  /\ PostRow(PostUri, <<Embed(<<Img(Cid1, "image/jpeg"), Img(Cid1, "image/jpeg")>>,
                             <<>>, <<>>)>>) \in postsTable

\* C25: every acquire terminates: a caller that is waiting for tokens is
\* eventually admitted or rejected, whatever the number of tokens it asked
\* for.
C25_AcquireTerminates ==
  \A id \in 1..MaxAcquires :
    (\E c \in limiter.callers : c.id = id) ~> ~(\E c \in limiter.callers : c.id = id)

\* C26: shouldCapture answers true for every label when the configured
\* allow-list is empty or absent, and otherwise exactly when label.val is in
\* the list; the call leaves the filter as it was.
C26_ShouldCapture ==
  /\ [](call.fn = "shouldCapture" =>
          \E captureLabels \in CaptureLabelsConfigs :
            /\ allowedLabels = NewLabelFilter(captureLabels)
            /\ call.out = (\/ Len(captureLabels) = 0
                           \/ \E k \in 1..Len(captureLabels) :
                                captureLabels[k] = call.in.val))
  /\ [][call'.fn = "shouldCapture" => allowedLabels' = allowedLabels]_vars

\* C26 witness: the allow-list is <<"spam">> and a "porn" label was refused.
C26_Witness ==
  /\ call.fn = "shouldCapture"
  /\ allowedLabels = NewLabelFilter(<<"spam">>)
  /\ call.in = LabelPorn
  /\ call.out = FALSE

\* C27: extractLabelsFromMessage returns the labels of the message, all of
\* them and in their order, when message.labels is an array, and the empty
\* list for a message without a labels array or with an empty one.
C27_ExtractLabels ==
  call.fn = "extractLabelsFromMessage" =>
    IF call.in.kind = "object" /\ call.in.labels.kind = "array"
    THEN /\ Len(call.out) = Len(call.in.labels.items)
         /\ \A k \in 1..Len(call.out) : call.out[k] = call.in.labels.items[k]
    ELSE call.out = <<>>

\* C27 witness: a message with three labels gave the three in their order.
C27_Witness ==
  /\ call.fn = "extractLabelsFromMessage"
  /\ call.in.kind = "object"
  /\ call.in.labels.kind = "array"
  /\ call.out = <<LabelSpam, LabelNoSrc, LabelPorn>>

\* Every blob entry of the embeds, by embed and within an embed images, then
\* media.images, then video.
RECURSIVE BlobEntries(_)
BlobEntries(embeds) ==
  IF Len(embeds) = 0 THEN <<>>
  ELSE embeds[1].images \o embeds[1].mediaImages \o embeds[1].video
       \o BlobEntries(Tail(embeds))

HasCid(entry) == entry.cid # ""

\* C29: extractBlobReferences returns one reference per blob entry with a
\* resolvable cid, ordered by embed and within an embed images, media.images,
\* video; entries without one are skipped; a null, non-array or empty input
\* gives the empty list.
C29_ExtractBlobReferences ==
  call.fn = "extractBlobReferences" =>
    IF call.in.kind = "array"
    THEN call.out = SelectSeq(BlobEntries(call.in.embeds), HasCid)
    ELSE call.out = <<>>

\* C29 witness: three embeds with seven entries, three of them without a
\* cid, gave the four references in order.
C29_Witness ==
  /\ call.fn = "extractBlobReferences"
  /\ call.in.kind = "array"
  /\ Len(call.in.embeds) = 3
  /\ call.out = <<Img(Cid2, "image/png"), Img(Cid1, "image/jpeg"), Img(Cid2, "video/mp4"),
                  Img(Cid1, "image/jpeg"), Img(Cid1, "video/mp4")>>

AllPresent(label) ==
  label.src # "" /\ label.uri # NoUri /\ label.val # "" /\ label.cts # ""

\* C28: validateLabel is true exactly when src, uri, val and cts are all
\* present; the step that receives a label failing it emits nothing, stores
\* nothing and enqueues nothing, and no such label is ever awaiting its insert
\* or in the labels table.
C28_ValidateLabel ==
  /\ [](call.fn = "validateLabel" => call.out = AllPresent(call.in))
  /\ [][(call' # call /\ call'.fn = "validateLabel" /\ ~AllPresent(call'.in)) =>
         /\ inserts' = inserts
         /\ labelsTable' = labelsTable
         /\ delivered' = delivered
         /\ queue' = queue
         /\ executions' = executions]_vars
  /\ [](\A label \in BagToSet(inserts) \cup BagToSet(labelsTable) : AllPresent(label))

\* C28 witness: a label without cts was received after a complete one; the
\* complete one was stored and its task emitted, the other left no trace.
C28_Witness ==
  /\ call.fn = "validateLabel"
  /\ call.in = Label("did:plc:labeler", PostUri, "spam", "", FALSE)
  /\ call.out = FALSE
  /\ budget.frames = 0
  /\ BagToSet(labelsTable) = {RouteLabelOf(PostUri)}
  /\ BagCardinality(executions) = 1
  /\ inserts = EmptyBag

\* C21: the "task" events follow the order of acceptance: every emission is of
\* a task accepted later than the task emitted before it, and no task that
\* was accepted earlier is still waiting in the queue.
C21_Fifo ==
  [][order'.last # order.last =>
       /\ order'.last > order.last
       /\ \A k \in 1..Len(order'.tickets) : order'.tickets[k] > order'.last]_vars

\* C21 witness: three tasks were accepted without a clear; the first two
\* were emitted in that order and the third is waiting.
C21_Witness ==
  /\ order.cleared = 1
  /\ order.last = 2
  /\ order.tickets = <<3>>
  /\ Len(queue) = 1
  /\ BagCardinality(executions) = 2

\* C22: without clear(), the accepted tasks are emitted one by one, each once
\* (the emitted ticket is the successor of the one emitted before); a task
\* accepted by an idle queue is emitted in the same step; a non-empty queue
\* is processing with a timer pending; and every queued task is emitted.
C22_QueueLiveness ==
  /\ [][order'.last # order.last => order'.last = order.last + 1]_vars
  /\ [][(~processing /\ order'.next # order.next) => order'.last = order.next]_vars
  /\ [](Len(queue) > 0 => (processing /\ queueTimers > 0))
  /\ \A k \in 1..MaxEnqueues :
       (\E i \in 1..Len(order.tickets) : order.tickets[i] = k) ~> (order.last >= k)

\* C22 witness: the queue emitted everything it accepted, went idle, and
\* emitted the task of the next enqueue at once.
C22_Witness ==
  /\ order.last = 3
  /\ order.next = 4
  /\ queue = <<>>
  /\ processing
  /\ queueTimers = 1
  /\ BagCardinality(executions) = 3
  /\ BagCardinality(running) = 1

\* C30: a clear() leaves the queue empty, and no task emitted afterwards is
\* one that was accepted before the clear.
C30_ClearDrops ==
  /\ [][order'.cleared # order.cleared => Len(queue') = 0]_vars
  /\ [][order'.last # order.last => order'.last >= order'.cleared]_vars
  /\ [](\A k \in 1..Len(order.tickets) : order.tickets[k] >= order.cleared)
  /\ [](Len(order.tickets) = Len(queue))

\* C30 witness: the second task accepted was queued when clear() ran and was
\* never emitted; the task accepted after the clear was.
C30_Witness ==
  /\ order.cleared = 3
  /\ order.last = 3
  /\ queue = <<>>
  /\ BagCardinality(executions) = 2

\* ------------------------------------------------------------------ C31
\* The identifiers a hydration call requested a DID document for, in
\* request order, of the calls in flight and of the call that ended last.
ResolutionRequests ==
  {h.resolved : h \in BagToSet(handlers)} \cup {lastOutcome.resolved}

\* C31: origin resolution is cached per subject: over the blob-processing
\* calls of a hydration, the resolution request for one account identifier
\* is issued at most once.
C31_ResolvedOncePerSubject ==
  \A requests \in ResolutionRequests :
    \A i, j \in 1..Len(requests) :
      StartsWithDid(requests[i]) /\ requests[i] = requests[j] => i = j

\* ------------------------------------------------------------------ C32
\* C32: withRetry waits before the k-th retry exactly
\* min(initialDelay * backoffMultiplier^(k-1), maxDelay); the delays are
\* non-decreasing, none exceeds maxDelay, and none is taken after the final
\* attempt (every delay is followed by an invocation of fn).
C32_RetryDelays ==
  call.fn = "withRetry" =>
    LET config == call.in.config
        slept == call.out.slept
        RECURSIVE Pow(_, _)
        Pow(b, e) == IF e = 0 THEN 1 ELSE b * Pow(b, e - 1)
    IN /\ \A k \in 1..Len(slept) :
            slept[k] = Min(config.initialDelay * Pow(config.backoffMultiplier, k - 1),
                           config.maxDelay)
       /\ \A k \in 1..Len(slept) : slept[k] <= config.maxDelay
       /\ \A k \in 1..(Len(slept) - 1) : slept[k] <= slept[k + 1]
       /\ Len(slept) = IF call.out.calls = 0 THEN 0 ELSE call.out.calls - 1

\* ------------------------------------------------------------------ C33
\* C33: while stop() has not been called, every close event schedules a
\* reconnect, the connector is never without both a socket and a pending
\* timer, a pending timer leads to a new connect() (or to stop()), and the
\* socket connect() constructs is opened with the value of this.cursor, the
\* cursor saved last.
C33_ReconnectAlways ==
  /\ [](phase = "up" /\ ~stopped => DOMAIN sockets # {} \/ Len(timers) > 0)
  /\ [][(\E id \in DOMAIN sockets : id \notin DOMAIN sockets') /\ ~stopped
          => Len(timers') = Len(timers) + 1]_vars
  /\ [][connects' > connects
          => /\ ws' = connects'
             /\ sockets'[connects'].state = "connecting"
             /\ sockets'[connects'].pos = ServerStart(cursor')
             /\ phase = "up" => cursor' = cursor]_vars
  /\ \A n \in 0..(MaxFaults + 1) :
       (Len(timers) > 0 /\ connects = n /\ ~stopped) ~> (stopped \/ connects > n)

\* The second connection was opened after a close, with the cursor a
\* completed saveCursor left.
C33_Witness ==
  /\ ~stopped
  /\ connects = 2
  /\ Len(timers) = 0
  /\ cursor = Num(SeqOf(1))
  /\ 2 \in DOMAIN sockets
  /\ sockets[2].state = "connecting"
  /\ sockets[2].pos = ServerStart(Num(SeqOf(1)))

\* ------------------------------------------------------------------ C34
\* C34: stored label events are immutable: no step (an insert of a new
\* event, a redelivery of a stored triple, a negation event, a restart)
\* removes or changes a row of the labels table; every row stays, with all
\* its fields.
C34_LabelsImmutable ==
  [][\A row \in BagToSet(labelsTable) :
       /\ row \in BagToSet(labelsTable')
       /\ CopiesIn(row, labelsTable') >= CopiesIn(row, labelsTable)]_vars

\* The event and its negation, which has the same (uri, val, cts), were both
\* inserted without error, and the table holds the row of the first only.
C34_Witness ==
  /\ CopiesIn(Triple(LabelSpam), delivered) >= 2
  /\ \E i, j \in 1..MaxSeq : LabelSpam \in emitted[i] /\ LabelSpamNeg \in emitted[j]
  /\ BagToSet(labelsTable) \in {{LabelSpam}, {LabelSpamNeg}}
  /\ BagCardinality(labelsTable) = 1

\* ------------------------------------------------------------------ C35
\* C35: computeBlobHashes always returns, with the sha256 of the bytes; the
\* result has a phash only for a media type that starts with image/ and does
\* not contain svg; when computePerceptualHash fails the result is the sha256
\* alone and nothing is raised.
C35_BlobHashes ==
  call.fn = "computeBlobHashes" =>
    LET bytes == call.in.bytes
        mimetype == call.in.mimetype
        out == call.out
    IN /\ ~out.threw
       /\ out.sha256 = ComputeSha256(bytes) /\ Len(out.sha256) > 0
       /\ out.phash # <<>> => mimetype \in {"image/jpeg", "image/png"}
       /\ ComputePerceptualHash(bytes).threw => out.phash = <<>>

\* The perceptual hash of an image failed and the call returned the sha256.
C35_Witness ==
  /\ call.fn = "computeBlobHashes"
  /\ call.in.mimetype = "image/png"
  /\ ComputePerceptualHash(call.in.bytes).threw
  /\ call.out = [threw |-> FALSE, sha256 |-> ComputeSha256(call.in.bytes), phash |-> <<>>]

\* ------------------------------------------------------------------ C36
\* C36: storage round trip: after store(cid, data, mimeType) has returned,
\* retrieve(cid) returns exactly data, for every cid, data and media type.
C36_StoreRetrieve ==
  /\ call.fn = "store" =>
       Retrieve(blobFiles, call.in.cid) = [kind |-> "buffer", data |-> call.in.data]
  /\ (call.fn = "retrieve" /\ call.after.cid = call.in) =>
       call.out = [kind |-> "buffer", data |-> call.after.data]

\* ------------------------------------------------------------------ C37
\* C37: a frame for which no label is emitted (it does not decode, is #info,
\* has no label, or its label is invalid or rejected by the filter) leaves
\* this.cursor, the cursor file and the cursor writes in flight as they were;
\* saveCursor is called only for frames that emitted a label, so the cursor
\* never holds the seq of a frame that was dropped.
C37_DroppedFrameKeepsCursor ==
  /\ [](\A i \in cursorSaves : emitted[i] # {})
  /\ [](cursor.kind = "num" =>
          \E i \in cursorSaves : cursor.n = SeqOf(i) /\ emitted[i] # {})
  /\ [][\A id \in DOMAIN sockets \cap DOMAIN sockets' :
          (sockets'[id].pos = sockets[id].pos + 1
           /\ EmittedFor(log'[sockets[id].pos], allowedLabels) = <<>>)
          => /\ inserts' = inserts
             /\ cursor' = cursor
             /\ cursorFile' = cursorFile
             /\ writes' = writes
             /\ cursorSaves' = cursorSaves]_vars

\* The first frame was emitted and its cursor saved; the second, whose label
\* the filter rejects, was read and the cursor is still that of the first.
C37_Witness ==
  /\ allowedLabels.enabled
  /\ Len(log) = 2
  /\ log[2] = LabelsFrame(<<LabelPorn>>)
  /\ emitted[1] # {} /\ emitted[2] = {}
  /\ \E id \in DOMAIN sockets : sockets[id].pos = 3
  /\ cursor = Num(SeqOf(1))
  /\ writes = <<>>
  /\ cursorSaves = {1}

\* ------------------------------------------------------------------ C38
\* C38: a hydration task is enqueued only by a label handler whose insert
\* has resolved, with the row of its label in the table; a handler whose
\* insert fails enqueues nothing; so every task that is queued or was
\* emitted is the task of the uri of a stored label.
C38_StoredBeforeEnqueued ==
  /\ [](\A task \in SeqRange(queue) \cup BagToSet(executions) :
          \E row \in BagToSet(labelsTable) : task \in ExpectedTasks(row.uri))
  /\ [][\A task \in SeqRange(queue') \cup BagToSet(executions') :
          Held(queue', executions', task) > Held(queue, executions, task) =>
            \E label \in BagToSet(inserts) :
              /\ task \in ExpectedTasks(label.uri)
              /\ inserts' = BagRemove(inserts, label)
              /\ delivered' = BagAdd(delivered, Triple(label))
              /\ \E row \in BagToSet(labelsTable') : Triple(row) = Triple(label)]_vars
  /\ [][(BagCardinality(inserts') < BagCardinality(inserts) /\ delivered' = delivered) =>
          /\ labelsTable' = labelsTable
          /\ queue' = queue /\ executions' = executions]_vars

\* The label of a post was stored and its task emitted; the insert of
\* another label did not store it, and no other task was ever enqueued.
C38_Witness ==
  /\ budget.frames = 0
  /\ inserts = EmptyBag
  /\ delivered = SetToBag({Triple(RouteLabelOf(PostUri))})
  /\ BagToSet(labelsTable) = {RouteLabelOf(PostUri)}
  /\ executions = SetToBag({Task("post", PostUri)})
  /\ queue = <<>>

\* ------------------------------------------------------------------ C39
\* C39: at most one dispatch timer chain is active per HydrationQueue: over
\* any interleaving of enqueue, clear() and timer firings at most one
\* processNext timer is pending, and a timer fires only for the task that
\* was started last, never for a task started after a clear() that followed
\* the timer's scheduling.
C39_OneTimerChain ==
  /\ [](queueTimers <= 1)
  /\ [][queueTimers' < queueTimers /\ processingTask # NoTask => queueTimers = 1]_vars

\* ------------------------------------------------------------------ C40
\* C40: after any sequence of acquire, getAvailableTokens, refill and reset
\* the tokens are between 0 and maxTokens; an acquire(n) returns in a step
\* that finds, after its refill, at least n tokens and takes exactly n; and
\* a refill adds refillRate for every whole interval elapsed, up to
\* maxTokens.
C40_TokenInvariant ==
  /\ [](0 <= limiter.tokens /\ limiter.tokens <= MaxTokens)
  /\ [][LET refilled == Min(MaxTokens, limiter.tokens
                              + (limiter.elapsed \div RefillInterval) * RefillRate)
        IN /\ limiter'.last # limiter.last =>
                /\ refilled >= limiter'.last.n
                /\ limiter'.tokens = refilled - limiter'.last.n
           /\ call' # call /\ call'.fn = "getAvailableTokens" =>
                /\ limiter'.tokens = refilled
                /\ call'.out = refilled]_vars

\* acquire(maxTokens) returned and emptied the bucket, later refills filled
\* it to the cap, and getAvailableTokens reports maxTokens.
C40_Witness ==
  /\ limiter.last.n = MaxTokens
  /\ limiter.calls = 1
  /\ call = [fn |-> "getAvailableTokens", out |-> MaxTokens]
  /\ limiter.tokens = MaxTokens
  /\ limiter.elapsed = 0
====
